---- MODULE Spec2Model ----
(***************************************************************************)
(* Badge PDF service: the PDF composer (generator.Generate and the layer   *)
(* renderers), the batch handler (handlers.GenerateBadgeBatch) with its    *)
(* render goroutines, and the size and concurrency limits of the handler.  *)
(*                                                                         *)
(* Strings are sequences of tokens: a token is one character, or one of    *)
(* the literals "asset_", "https://", "http://", "customFields.", so that  *)
(* strings.HasPrefix, strings.Contains and strings.TrimPrefix are computed *)
(* on the text and not looked up.                                          *)
(***************************************************************************)
EXTENDS Integers, Sequences, FiniteSets, TLC

VARIABLES
    template,        \* req.Template: assets and the root layer slice, shared by every render
    received,        \* the template as the request body gave it (never written)
    users,           \* req.Users
    env,             \* what each URL answers: "ok", "404", "undecodable", "unregistrable"
    dataCache,       \* process-wide Image Data Cache: keys <<url, w, h, dpi>> processed so far
    fetches,         \* number of HTTP fetches per URL since process start
    imageRequests,   \* the handler's imageRequests slice
    imageDataCache,  \* the per-request map URL -> bytes handed to every generator
    preloaded,       \* TRUE once PreloadImagesDirect has returned
    hpc,             \* where the batch handler is
    hIdx,            \* the handler's loop variable i over req.Users
    gens,            \* one PDFGenerator / render goroutine per user index
    results,         \* the results slice
    slotWrites,      \* how many times each slot of results was assigned
    sem,             \* number of tokens in the handler's sem channel
    wg,              \* the WaitGroup counter
    response,        \* the HTTP response of the batch handler
    load,            \* the handlers of several requests in flight, users counted
    fn,              \* one call of a function of the generator: arguments, result
    fileCache,       \* package cache: once, memCache, the cache directories, files
    single,          \* the handler of one single-badge request
    fan              \* one batch fan-out: the render goroutines counted by stage

inputVars == <<received, users, env>>
cacheVars == <<dataCache, fetches>>
handlerVars == <<imageRequests, imageDataCache, preloaded, hpc, hIdx, results,
                 slotWrites, sem, wg, response>>

restVars == <<load, fn, fileCache, single, fan>>

vars == <<template, inputVars, cacheVars, handlerVars, gens, restVars>>

-----------------------------------------------------------------------------
(* Bounds of the model *)

MaxUsers == 2
MaxLayers == 2
MaxGenLayers == 3
MaxSize == 4
MaxSmallBatch == 2
MaxPieces == 3
MaxChildren == 3
MaxClears == 2
MaxText == 4
MaxFan == 2

(* Program constants *)

MaxBatchUsers == 500
RenderSlots == 50
DefaultDPI == 300

-----------------------------------------------------------------------------
(* strings *)

EmptyStr == <<>>

HasPrefix(s, p) ==
    /\ Len(s) >= Len(p)
    /\ SubSeq(s, 1, Len(p)) = p

Contains(s, sub) ==
    \E i \in 0..(Len(s) - Len(sub)) : SubSeq(s, i + 1, i + Len(sub)) = sub

TrimPrefix(s, p) ==
    IF HasPrefix(s, p) THEN SubSeq(s, Len(p) + 1, Len(s)) ELSE s

SeqSet(q) == {q[k] : k \in 1..Len(q)}
SeqIds(q) == {q[k].id : k \in 1..Len(q)}

IsHTTP(s) ==
    HasPrefix(s, <<"http://">>) \/ HasPrefix(s, <<"https://">>)

-----------------------------------------------------------------------------
(* models: User, Layer, Template *)

\* (u *User) GetFieldValue: the value of the first custom field with this id
RECURSIVE FieldLookup(_, _, _)
FieldLookup(fields, fieldID, k) ==
    IF k > Len(fields) THEN EmptyStr
    ELSE IF fields[k].fieldId = fieldID THEN fields[k].value
    ELSE FieldLookup(fields, fieldID, k + 1)

GetFieldValue(user, fieldID) == FieldLookup(user.fields, fieldID, 1)

User(id, identifier, fields) ==
    [id |-> id, identifier |-> identifier, fields |-> fields]

Field(fieldId, value) == [fieldId |-> fieldId, value |-> value]

Layer(id, type, z, visible, content, dataBinding, w, h, opacity, bg, children) ==
    [id |-> id, type |-> type, z |-> z, visible |-> visible, content |-> content,
     dataBinding |-> dataBinding, w |-> w, h |-> h, opacity |-> opacity,
     bg |-> bg, children |-> children]

\* the zero value of models.Layer
NoLayer == Layer("", "", 0, FALSE, EmptyStr, EmptyStr, 0, 0, 0, "", <<>>)

\* template.Design.Settings.DPI with the default of NewPDFGenerator and the handlers
DPIOf(t) == IF t.dpi = 0 THEN DefaultDPI ELSE t.dpi

-----------------------------------------------------------------------------
(* URLs, custom fields and layers the inputs are built from *)

UrlBg == <<"https://", "b", "g">>
UrlP1 == <<"https://", "p", "1">>
UrlP2 == <<"https://", "p", "2">>
UrlDirect == <<"http://", "d">>
AllURLs == {UrlBg, UrlP1, UrlP2, UrlDirect}

PhotoField == <<"f", "0">>
PhotoBinding == <<"customFields.">> \o PhotoField

AssetRef == <<"asset_", "0">>
AssetsExact == (AssetRef :> UrlBg)
AssetsStamped == ((AssetRef \o <<"_", "1", "7">>) :> UrlBg)

UserA == User(<<"1">>, <<"A">>, <<Field(PhotoField, UrlP1)>>)
UserB == User(<<"2">>, <<"B">>, <<Field(PhotoField, UrlP2)>>)
UserC == User(<<"3">>, <<"C">>, <<Field(PhotoField, UrlP1)>>)
UserAnon == User(EmptyStr, EmptyStr, <<>>)

LBackground == Layer("bg", "image", 0, TRUE, AssetRef, EmptyStr, 8, 5, 1, "", <<>>)
LPhoto == Layer("photo", "image", 1, TRUE, EmptyStr, PhotoBinding, 3, 4, 1, "", <<>>)
LQr == Layer("qr", "qrcode", 2, TRUE, EmptyStr, EmptyStr, 2, 2, 1, "", <<>>)
LShape == Layer("shape", "shape", 1, TRUE, EmptyStr, EmptyStr, 8, 1, 1, "#ff0000", <<>>)
LHidden == Layer("hidden", "image", 0, FALSE, UrlDirect, EmptyStr, 2, 2, 1, "", <<>>)
LChildPhoto == Layer("cphoto", "image", 0, TRUE, EmptyStr, PhotoBinding, 2, 2, 1, "", <<>>)
LChildQr == Layer("cqr", "qrcode", 0, TRUE, EmptyStr, EmptyStr, 2, 2, 1, "", <<>>)
LChildHidden == Layer("chidden", "shape", 0, FALSE, EmptyStr, EmptyStr, 1, 1, 1, "#00ff00", <<>>)
LChildLogo == Layer("clogo", "image", 0, TRUE, UrlDirect, EmptyStr, 1, 1, 1, "", <<>>)
LBox == Layer("box", "container", 1, TRUE, EmptyStr, EmptyStr, 8, 4, 1, "",
              <<LChildPhoto, LChildHidden, LChildQr, LChildLogo>>)

\* the sequences of distinct elements of S of length 1..n
RECURSIVE DistinctSeqs(_, _)
DistinctSeqs(S, n) ==
    IF n = 0 THEN {<<>>}
    ELSE LET shorter == DistinctSeqs(S, n - 1)
         IN  shorter \cup
             {Append(q, x) : <<q, x>> \in
                 {p \in shorter \X S : \A i \in 1..Len(p[1]) : p[1][i] # p[2]}}

-----------------------------------------------------------------------------
(* generator: placeholder resolution *)

IdCharsAnyCase ==
    {"a", "b", "c", "d", "e", "f", "0", "1", "2", "3", "4", "5", "6", "7", "8", "9",
     "-", "A", "B", "C", "D", "E", "F"}

IdChars == {"a", "b", "c", "d", "e", "f", "0", "1", "2", "3", "4", "5", "6",
            "7", "8", "9", "-"}
Whitespace == {" ", "\n", "\t"}
OpenToken == "{{customFields."
CloseToken == "}}"

\* the end of the longest run of [a-f0-9-] starting at k (k - 1 when there is none)
RECURSIVE IdRunEnd(_, _)
IdRunEnd(s, k) ==
    IF k <= Len(s) /\ s[k] \in IdChars THEN IdRunEnd(s, k + 1) ELSE k - 1

\* placeholderRegex.ReplaceAllStringFunc: every {{customFields.<id>}} by the field value
RECURSIVE ReplacePlaceholders(_, _, _)
ReplacePlaceholders(s, k, user) ==
    IF k > Len(s) THEN <<>>
    ELSE LET e == IdRunEnd(s, k + 1)
         IN  IF s[k] = OpenToken /\ e > k /\ e < Len(s) /\ s[e + 1] = CloseToken
             THEN GetFieldValue(user, SubSeq(s, k + 1, e))
                      \o ReplacePlaceholders(s, e + 2, user)
             ELSE <<s[k]>> \o ReplacePlaceholders(s, k + 1, user)

RECURSIVE TrimLeft(_)
TrimLeft(s) ==
    IF s # <<>> /\ Head(s) \in Whitespace THEN TrimLeft(Tail(s)) ELSE s

RECURSIVE TrimRight(_)
TrimRight(s) ==
    IF s # <<>> /\ s[Len(s)] \in Whitespace
    THEN TrimRight(SubSeq(s, 1, Len(s) - 1)) ELSE s

TrimSpace(s) == TrimRight(TrimLeft(s))

\* whitespaceRegex.ReplaceAllString(s, " "): every run of whitespace by one space
RECURSIVE CollapseSpaces(_)
CollapseSpaces(s) ==
    IF s = <<>> THEN <<>>
    ELSE IF Head(s) \in Whitespace
         THEN <<" ">> \o CollapseSpaces(TrimLeft(s))
         ELSE <<Head(s)>> \o CollapseSpaces(Tail(s))

resolvePlaceholders(content, user) ==
    IF content = EmptyStr THEN EmptyStr
    ELSE CollapseSpaces(TrimSpace(ReplacePlaceholders(content, 1, user)))

\* strings.Contains(s, "{{")
ContainsBraces(s) == \E i \in 1..Len(s) : s[i] \in {OpenToken, "{{"}

-----------------------------------------------------------------------------
(* generator: the layer renderers.  A render state st is what one call may
   change: the pictures drawn on the page so far, the process-wide image
   data cache, the fetch counters, and the error of the last call. *)

Drawn(layer, kind, url, w, h, text) ==
    [id |-> layer.id, kind |-> kind, url |-> url, w |-> w, h |-> h, text |-> text]

Bytes(url, w, h) == [url |-> url, w |-> w, h |-> h]

Called(st, layer) == [st EXCEPT !.calls = Append(@, layer.id)]
Ok(st) == [st EXCEPT !.err = FALSE]
Failed(st) == [st EXCEPT !.err = TRUE]
Draw(st, d) == [st EXCEPT !.err = FALSE, !.drawn = Append(@, d)]

ImageURLsSubstringFirst(layer, user, assets) ==
    LET hits == {key \in DOMAIN assets : Contains(key, layer.content)}
    IN  IF hits = {} THEN {EmptyStr} ELSE {assets[key] : key \in hits}

\* The URL an image layer resolves to; a set, because the fallback walks the
\* assets map in Go's unspecified iteration order and takes the first match.
ImageURLs(layer, user, assets) ==
    IF HasPrefix(layer.content, <<"asset_">>)
    THEN IF layer.content \in DOMAIN assets
         THEN {assets[layer.content]}
         ELSE LET hits == {key \in DOMAIN assets : Contains(key, layer.content)}
              IN  IF hits = {} THEN {EmptyStr} ELSE {assets[key] : key \in hits}
    ELSE IF layer.dataBinding # EmptyStr
         THEN {GetFieldValue(user, TrimPrefix(layer.dataBinding, <<"customFields.">>))}
         ELSE IF layer.content # EmptyStr /\ IsHTTP(layer.content)
              THEN {layer.content}
              ELSE {EmptyStr}

\* cache.GetImageDataDirect: the process-wide cache by (url, w, h, dpi), else
\* fetch and process, and keep the result
GetImageDataDirect(url, w, h, dpi, st) ==
    IF <<url, w, h, dpi>> \in st.dataCache
    THEN [st |-> st, err |-> FALSE, bytes |-> Bytes(url, w, h)]
    ELSE LET fetched == [st EXCEPT !.fetches[url] = @ + 1]
         IN  IF env[url] \in {"404", "undecodable"}
             THEN [st |-> fetched, err |-> TRUE, bytes |-> Bytes(EmptyStr, 0, 0)]
             ELSE [st |-> [fetched EXCEPT !.dataCache = @ \cup {<<url, w, h, dpi>>}],
                   err |-> FALSE, bytes |-> Bytes(url, w, h)]

\* RegisterImageOptionsReader and ImageOptions: info == nil fails the layer
RegisterAndDraw(layer, bytes, st) ==
    IF env[bytes.url] = "unregistrable"
    THEN Failed(st)
    ELSE Draw(st, Drawn(layer, "image", bytes.url, bytes.w, bytes.h, EmptyStr))

renderImageAt(layer, url, dpi, cacheMap, st) ==
    IF url = EmptyStr THEN Ok(st)
    ELSE IF layer.opacity = 0 THEN Ok(st)
    ELSE IF url \in DOMAIN cacheMap
         THEN RegisterAndDraw(layer, cacheMap[url], st)
         ELSE LET got == GetImageDataDirect(url, layer.w, layer.h, dpi, st)
              IN  IF got.err THEN Failed(got.st)
                  ELSE RegisterAndDraw(layer, got.bytes, got.st)

renderImage(layer, user, tmpl, cacheMap, st) ==
    {renderImageAt(layer, url, DPIOf(tmpl), cacheMap, st) :
        url \in ImageURLs(layer, user, tmpl.assets)}

\* the QR content: resolved content, else identifier, else id
QRContentIdentifierOnly(layer, user) ==
    LET resolved == resolvePlaceholders(layer.content, user)
    IN  IF resolved = EmptyStr \/ ContainsBraces(resolved)
        THEN user.identifier ELSE resolved

\* qrContent of renderQRCode: the resolved content, else the identifier, else the id
QRContent(layer, user) ==
    LET resolved == resolvePlaceholders(layer.content, user)
        first == IF resolved = EmptyStr \/ ContainsBraces(resolved)
                 THEN user.identifier ELSE resolved
    IN  IF first = EmptyStr THEN user.id ELSE first

renderQRCode(layer, user, st) ==
    IF layer.opacity = 0 THEN Ok(st)
    ELSE IF QRContent(layer, user) = EmptyStr THEN Failed(st)
    ELSE Draw(st, Drawn(layer, "qrcode", EmptyStr, layer.w, layer.h, QRContent(layer, user)))

renderText(layer, user, st) ==
    LET text == resolvePlaceholders(layer.content, user)
    IN  IF TrimSpace(text) = EmptyStr THEN Ok(st)
        ELSE Draw(st, Drawn(layer, "text", EmptyStr, layer.w, layer.h, text))

renderShape(layer, st) ==
    IF layer.bg = "" \/ layer.bg = "transparent" THEN Ok(st)
    ELSE Draw(st, Drawn(layer, "shape", EmptyStr, layer.w, layer.h, EmptyStr))

RECURSIVE renderLayer(_, _, _, _, _)
RECURSIVE renderChildren(_, _, _, _, _, _)

\* renderContainer's loop from child k on, over every state the earlier children can leave
renderChildren(children, k, user, tmpl, cacheMap, sts) ==
    IF k > Len(children) THEN sts
    ELSE renderChildren(children, k + 1, user, tmpl, cacheMap,
            IF ~children[k].visible THEN sts
            ELSE UNION {renderLayer(children[k], user, tmpl, cacheMap, st) : st \in sts})

\* a child's error is dropped and the container itself returns nil
renderContainer(layer, user, tmpl, cacheMap, st) ==
    IF Len(layer.children) = 0 THEN {Ok(st)}
    ELSE {Ok(after) : after \in renderChildren(layer.children, 1, user, tmpl, cacheMap, {st})}

renderLayer(layer, user, tmpl, cacheMap, st0) ==
    LET st == Called(st0, layer)
    IN  CASE layer.type = "text" -> {renderText(layer, user, st)}
          [] layer.type = "qrcode" -> {renderQRCode(layer, user, st)}
          [] layer.type = "image" -> renderImage(layer, user, tmpl, cacheMap, st)
          [] layer.type = "container" -> renderContainer(layer, user, tmpl, cacheMap, st)
          [] layer.type = "shape" -> {renderShape(layer, st)}
          [] OTHER -> {Ok(st)}

-----------------------------------------------------------------------------
(* generator: PDFGenerator.Generate, step by step.  gens[w] is the generator
   of render w: its place in Generate, the locals of sort.Slice (an insertion
   sort on slices this short; i, j and the Swapper's temporary), the range
   index k, and what it has put on the page. *)

NewGen ==
    [pc |-> "none", n |-> 0, i |-> 0, j |-> 0, tmp |-> NoLayer, k |-> 0,
     visited |-> <<>>, calls |-> <<>>, drawn |-> <<>>, err |-> "",
     pdf |-> FALSE, emitFailed |-> FALSE]

\* layers := g.template.Design.Layers; sort.Slice(layers, ...) begins
EnterGenerate(g, n) ==
    [g EXCEPT !.n = n, !.i = 2, !.j = 2, !.k = 1,
              !.pc = IF n >= 2 THEN "sort" ELSE IF n = 1 THEN "render" ELSE "output"]

\* the less function handed to sort.Slice
LessDescending(layers, a, b) == layers[a].z > layers[b].z
Less(layers, a, b) == layers[a].z < layers[b].z

\* the outer loop of the insertion sort moves on to the next i
NextI(g) ==
    IF g.i + 1 > g.n
    THEN [g EXCEPT !.pc = "render", !.k = 1]
    ELSE [g EXCEPT !.pc = "sort", !.i = g.i + 1, !.j = g.i + 1]

SortCmp(w) ==
    /\ gens[w].pc = "sort"
    /\ gens' = [gens EXCEPT ![w] =
                  IF Less(template.layers, gens[w].j, gens[w].j - 1)
                  THEN [@ EXCEPT !.pc = "swap1"]
                  ELSE NextI(@)]
    /\ UNCHANGED <<template, inputVars, cacheVars, handlerVars, restVars>>

\* Swap(j, j-1), first half: tmp = layers[j]; layers[j] = layers[j-1]
Swap1(w) ==
    /\ gens[w].pc = "swap1"
    /\ gens' = [gens EXCEPT ![w].tmp = template.layers[gens[w].j], ![w].pc = "swap2"]
    /\ template' = [template EXCEPT !.layers[gens[w].j] = template.layers[gens[w].j - 1]]
    /\ UNCHANGED <<inputVars, cacheVars, handlerVars, restVars>>

\* Swap(j, j-1), second half: layers[j-1] = tmp; then j--
Swap2(w) ==
    /\ gens[w].pc = "swap2"
    /\ template' = [template EXCEPT !.layers[gens[w].j - 1] = gens[w].tmp]
    /\ gens' = [gens EXCEPT ![w] =
                  IF gens[w].j - 1 > 1
                  THEN [@ EXCEPT !.pc = "sort", !.j = gens[w].j - 1]
                  ELSE NextI(@)]
    /\ UNCHANGED <<inputVars, cacheVars, handlerVars, restVars>>

\* what Generate does with the error of renderLayer: nothing, the loop goes on
LayerErrorAborts(g) == [g EXCEPT !.pc = "returned", !.err = "layer failed"]
LayerError(g) == g

\* one iteration of "for _, layer := range layers"
RenderNext(w) ==
    /\ gens[w].pc = "render"
    /\ LET g == gens[w]
           layer == template.layers[g.k]
           next == [g EXCEPT !.k = g.k + 1,
                             !.pc = IF g.k + 1 > g.n THEN "output" ELSE "render"]
       IN  IF ~layer.visible
           THEN /\ gens' = [gens EXCEPT ![w] = next]
                /\ UNCHANGED <<dataCache, fetches>>
           ELSE \E out \in renderLayer(layer, users[w], template, imageDataCache,
                                       [drawn |-> g.drawn, calls |-> g.calls,
                                        dataCache |-> dataCache, fetches |-> fetches,
                                        err |-> FALSE]) :
                   LET done == [next EXCEPT !.visited = Append(@, <<layer.id, layer.z>>),
                                            !.calls = out.calls,
                                            !.drawn = out.drawn]
                   IN  /\ gens' = [gens EXCEPT ![w] =
                                     IF out.err THEN LayerError(done) ELSE done]
                       /\ dataCache' = out.dataCache
                       /\ fetches' = out.fetches
    /\ UNCHANGED <<template, inputVars, handlerVars, restVars>>

\* g.pdf.Output(&buf): Generate returns the bytes, or the error of the emission
Returned(g, ok) ==
    [g EXCEPT !.pc = "returned", !.pdf = ok, !.emitFailed = ~ok,
              !.err = IF ok THEN "" ELSE "failed to output PDF"]

Output(w) ==
    /\ gens[w].pc = "output"
    /\ \E ok \in BOOLEAN : gens' = [gens EXCEPT ![w] = Returned(@, ok)]
    /\ UNCHANGED <<template, inputVars, cacheVars, handlerVars, restVars>>

-----------------------------------------------------------------------------
(* SpecGen: one call of Generate on any template, user and cache map *)

Statuses == {"ok", "404", "undecodable", "unregistrable"}
GenURLs == {UrlBg, UrlP1, UrlDirect}
GenPalette == {LBackground, LQr, LBox, LHidden}
GenLayerLists == DistinctSeqs(GenPalette, MaxGenLayers) \ {<<>>}

NoFetches == [u \in AllURLs |-> 0]
NoLoad == <<>>
NoCall == [op |-> "none"]
NoFileCache == [once |-> FALSE]
NoSingle == [pc |-> "none"]
NoFan == [pc |-> "none"]

\* the map a preload of every URL would have returned
FullCacheMap(e) ==
    LET can == {u \in GenURLs : e[u] \in {"ok", "unregistrable"}}
    IN  [u \in can |-> Bytes(u, 0, 0)]

InitGen ==
    /\ template \in [assets : {AssetsExact, AssetsStamped}, layers : GenLayerLists,
                     dpi : {0}]
    /\ received = template
    /\ users \in {<<UserA>>, <<UserAnon>>}
    /\ env \in {e \in [AllURLs -> Statuses] : e[UrlP2] = "ok"}
    /\ imageDataCache \in {<<>>, FullCacheMap(env)}
    /\ dataCache = {}
    /\ fetches = NoFetches
    /\ imageRequests = <<>>
    /\ preloaded = TRUE
    /\ hpc = "generate"
    /\ hIdx = 0
    /\ gens = <<EnterGenerate(NewGen, Len(template.layers))>>
    /\ results = <<>>
    /\ slotWrites = <<>>
    /\ sem = 0
    /\ wg = 0
    /\ response = [status |-> 0]
    /\ load = NoLoad
    /\ fn = NoCall
    /\ fileCache = NoFileCache
    /\ single = NoSingle
    /\ fan = NoFan

NextGen ==
    \/ \E w \in DOMAIN gens : SortCmp(w)
    \/ \E w \in DOMAIN gens : Swap1(w)
    \/ \E w \in DOMAIN gens : Swap2(w)
    \/ \E w \in DOMAIN gens : RenderNext(w)
    \/ \E w \in DOMAIN gens : Output(w)

SpecGen == InitGen /\ [][NextGen]_vars

-----------------------------------------------------------------------------
(* handlers: GenerateBadgeBatch *)

\* the two size checks on len(req.Users): the error of the 400 answer, or ""
BatchSizeErrorOffByOne(n) ==
    IF n = 0 THEN "No users provided"
    ELSE IF n >= MaxBatchUsers THEN "Maximum 500 users per batch"
    ELSE ""

BatchSizeError(n) ==
    IF n = 0 THEN "No users provided"
    ELSE IF n > MaxBatchUsers THEN "Maximum 500 users per batch"
    ELSE ""

ImageRequest(url, w, h, dpi) == [url |-> url, w |-> w, h |-> h, dpi |-> dpi]

\* without the search for an equal request
AddRequestAlways(reqs, layer, url, dpi) ==
    IF url # EmptyStr /\ layer.type = "image"
    THEN Append(reqs, ImageRequest(url, layer.w, layer.h, dpi))
    ELSE reqs

\* the body of collectImageLayers for one layer: append unless URL+W+H is there
AddRequest(reqs, layer, url, dpi) ==
    IF /\ url # EmptyStr
       /\ layer.type = "image"
       /\ ~\E k \in 1..Len(reqs) :
              reqs[k].url = url /\ reqs[k].w = layer.w /\ reqs[k].h = layer.h
    THEN Append(reqs, ImageRequest(url, layer.w, layer.h, dpi))
    ELSE reqs

\* collectImageLayers from layer k on, over every request list the earlier
\* layers can leave (the asset fallback may choose among several keys)
RECURSIVE collectImageLayers(_, _, _, _, _, _)
collectImageLayers(layers, k, user, assets, dpi, lists) ==
    IF k > Len(layers) THEN lists
    ELSE LET layer == layers[k]
             added == UNION {{AddRequest(reqs, layer, url, dpi) :
                                 url \in ImageURLs(layer, user, assets)} : reqs \in lists}
             deeper == IF layer.type = "container" /\ Len(layer.children) > 0
                       THEN collectImageLayers(layer.children, 1, user, assets, dpi, added)
                       ELSE added
         IN  collectImageLayers(layers, k + 1, user, assets, dpi,
                                IF layer.visible THEN deeper ELSE lists)

\* the users whose image layers the handler collects: the first one only
CollectedUsersNone(us) == {}
CollectedUsers(us) == IF Len(us) > 0 THEN {1} ELSE {}

RECURSIVE CollectFor(_, _, _, _)
CollectFor(idxs, us, tmpl, lists) ==
    IF idxs = {} THEN lists
    ELSE LET i == CHOOSE x \in idxs : \A y \in idxs : x <= y
         IN  CollectFor(idxs \ {i}, us, tmpl,
                        collectImageLayers(tmpl.layers, 1, us[i], tmpl.assets,
                                           DPIOf(tmpl), lists))

ReqKey(r) == <<r.url, r.w, r.h, r.dpi>>

\* cache.PreloadImagesDirect: what the requests leave in the process-wide cache
PreloadMisses(reqs, cached) == {r \in SeqSet(reqs) : ReqKey(r) \notin cached}
PreloadGood(reqs, cached) ==
    {r \in SeqSet(reqs) : ReqKey(r) \in cached \/ env[r.url] \in {"ok", "unregistrable"}}

\* ... and the maps URL -> bytes it can return (one entry per URL: of two sizes
\* of one URL the worker that writes last wins)
PreloadMaps(reqs, cached) ==
    LET good == PreloadGood(reqs, cached)
        urls == {r.url : r \in good}
    IN  {m \in [urls -> {Bytes(r.url, r.w, r.h) : r \in good}] :
            \A u \in urls : m[u].url = u}

ZeroResult ==
    [user_id |-> EmptyStr, identifier |-> EmptyStr, success |-> FALSE,
     error |-> "", pdf |-> FALSE]

Validate ==
    /\ hpc = "start"
    /\ IF BatchSizeError(Len(users)) # ""
       THEN /\ response' = [status |-> 400, error |-> BatchSizeError(Len(users))]
            /\ hpc' = "done"
       ELSE /\ hpc' = "collect"
            /\ UNCHANGED response
    /\ UNCHANGED <<template, inputVars, cacheVars, imageRequests, imageDataCache,
                   preloaded, hIdx, results, slotWrites, sem, wg, gens, restVars>>

Collect ==
    /\ hpc = "collect"
    /\ imageRequests' \in CollectFor(CollectedUsers(users), users, template, {<<>>})
    /\ hpc' = "preload"
    /\ UNCHANGED <<template, inputVars, cacheVars, imageDataCache, preloaded, hIdx,
                   results, slotWrites, sem, wg, response, gens, restVars>>

\* imageDataCache := cache.PreloadImagesDirect(imageRequests); results, wg, sem
Preload ==
    /\ hpc = "preload"
    /\ imageDataCache' \in PreloadMaps(imageRequests, dataCache)
    /\ fetches' = [u \in AllURLs |->
                     fetches[u] + Cardinality({r \in PreloadMisses(imageRequests, dataCache) :
                                                  r.url = u})]
    /\ dataCache' = dataCache \cup {ReqKey(r) : r \in PreloadGood(imageRequests, dataCache)}
    /\ preloaded' = TRUE
    /\ results' = [i \in 1..Len(users) |-> ZeroResult]
    /\ slotWrites' = [i \in 1..Len(users) |-> 0]
    /\ sem' = 0
    /\ wg' = 0
    /\ hIdx' = 1
    /\ hpc' = "spawn"
    /\ UNCHANGED <<template, inputVars, imageRequests, response, gens, restVars>>

\* one iteration of "for i, userData := range req.Users": wg.Add(1); go func(i, userData)
Spawn ==
    /\ hpc = "spawn"
    /\ wg' = wg + 1
    /\ gens' = [gens EXCEPT ![hIdx].pc = "acquire"]
    /\ hIdx' = hIdx + 1
    /\ hpc' = IF hIdx + 1 > Len(users) THEN "wait" ELSE "spawn"
    /\ UNCHANGED <<template, inputVars, cacheVars, imageRequests, imageDataCache,
                   preloaded, results, slotWrites, sem, response, restVars>>

\* sem <- struct{}{}; then NewPDFGenerator, SetImageDataCache and Generate begin
Acquire(w) ==
    /\ gens[w].pc = "acquire"
    /\ sem < RenderSlots
    /\ sem' = sem + 1
    /\ gens' = [gens EXCEPT ![w] = EnterGenerate(@, Len(template.layers))]
    /\ UNCHANGED <<template, inputVars, cacheVars, imageRequests, imageDataCache,
                   preloaded, hpc, hIdx, results, slotWrites, wg, response, restVars>>

\* the slot of results the goroutine assigns: its own parameter idx
SlotOfLoopVar(w) == IF hIdx > Len(users) THEN Len(users) ELSE hIdx
SlotOf(w) == w

\* The end of the goroutine: Generate returns, result := BadgeResult{...} takes
\* success or error from it, results[idx] = result, and the deferred calls run:
\* <-sem, then wg.Done().  One step: until wg.Done() nothing else reads the slot.
BadgeResultAlwaysOk(user, g) ==
    [user_id |-> user.id, identifier |-> user.identifier,
     success |-> TRUE, error |-> "", pdf |-> TRUE]

BadgeResult(user, g) ==
    [user_id |-> user.id, identifier |-> user.identifier,
     success |-> g.err = "", error |-> g.err, pdf |-> g.err = ""]

Finish(w) ==
    /\ gens[w].pc = "output"
    /\ \E ok \in BOOLEAN :
          LET g == Returned(gens[w], ok)
          IN  /\ results' = [results EXCEPT ![SlotOf(w)] = BadgeResult(users[w], g)]
              /\ gens' = [gens EXCEPT ![w] = [g EXCEPT !.pc = "done"]]
    /\ slotWrites' = [slotWrites EXCEPT ![SlotOf(w)] = @ + 1]
    /\ sem' = sem - 1
    /\ wg' = wg - 1
    /\ UNCHANGED <<template, inputVars, cacheVars, imageRequests, imageDataCache,
                   preloaded, hpc, hIdx, response, restVars>>

SuccessCount(rs) == Cardinality({i \in 1..Len(rs) : rs[i].success})

\* the aggregate flag of the response
AllSucceededAny(rs) == SuccessCount(rs) > 0
AllSucceeded(rs) == SuccessCount(rs) = Len(rs)

\* wg.Wait() returns; count the successes; answer
Respond ==
    /\ hpc = "wait"
    /\ wg = 0
    /\ response' = [status |-> 200, success |-> AllSucceeded(results),
                    total |-> Len(results), results |-> results]
    /\ hpc' = "done"
    /\ UNCHANGED <<template, inputVars, cacheVars, imageRequests, imageDataCache,
                   preloaded, hIdx, results, slotWrites, sem, wg, gens, restVars>>

-----------------------------------------------------------------------------
(* Spec: one batch request, every render goroutine step by step *)

BatchPalette == {LBackground, LPhoto, LQr}
BatchLayerLists == DistinctSeqs(BatchPalette, MaxLayers) \ {<<>>}
BatchUsers == <<UserA, UserB, UserC>>
BatchUserLists ==
    {SubSeq(BatchUsers, 1, n) : n \in 0..(IF MaxUsers < 3 THEN MaxUsers ELSE 3)}

Init ==
    /\ template \in [assets : {AssetsStamped}, layers : BatchLayerLists, dpi : {0}]
    /\ received = template
    /\ users \in BatchUserLists
    /\ Len(users) + Len(template.layers) <= MaxSize
    /\ env \in {e \in [AllURLs -> {"ok", "404"}] : e[UrlDirect] = "ok"}
    /\ imageDataCache = <<>>
    /\ dataCache = {}
    /\ fetches = NoFetches
    /\ imageRequests = <<>>
    /\ preloaded = FALSE
    /\ hpc = "start"
    /\ hIdx = 0
    /\ gens = [i \in 1..Len(users) |-> NewGen]
    /\ results = <<>>
    /\ slotWrites = <<>>
    /\ sem = 0
    /\ wg = 0
    /\ response = [status |-> 0]
    /\ load = NoLoad
    /\ fn = NoCall
    /\ fileCache = NoFileCache
    /\ single = NoSingle
    /\ fan = NoFan

Next ==
    \/ Validate
    \/ Collect
    \/ Preload
    \/ Spawn
    \/ \E w \in DOMAIN gens : Acquire(w)
    \/ \E w \in DOMAIN gens : SortCmp(w)
    \/ \E w \in DOMAIN gens : Swap1(w)
    \/ \E w \in DOMAIN gens : Swap2(w)
    \/ \E w \in DOMAIN gens : RenderNext(w)
    \/ \E w \in DOMAIN gens : Finish(w)
    \/ Respond

Spec == Init /\ [][Next]_vars

-----------------------------------------------------------------------------
(* SpecLoad: several batch requests in flight in one process, each handler
   with its own results, wg and sem.  The render goroutines of a request are
   counted: pending on "sem <-", running between "sem <-" and "<-sem", done. *)

BigRequest == "big"
SmallRequest == "small"
LoadSizes ==
    [r \in {BigRequest, SmallRequest} |->
        IF r = BigRequest THEN {0, MaxBatchUsers, MaxBatchUsers + 1}
        ELSE 0..MaxSmallBatch]

NewRequest(n) ==
    [n |-> n, pc |-> "start", status |-> 0, error |-> "", preloadCalled |-> FALSE,
     pending |-> 0, running |-> 0, done |-> 0]

InitLoad ==
    /\ load \in {l \in [{BigRequest, SmallRequest} ->
                          {NewRequest(n) : n \in 0..(MaxBatchUsers + 1)}] :
                    \A r \in DOMAIN l : l[r].n \in LoadSizes[r]}
    /\ template = [assets |-> AssetsStamped, layers |-> <<LBackground>>, dpi |-> 0]
    /\ received = template
    /\ users = <<>>
    /\ env = [u \in AllURLs |-> "ok"]
    /\ imageDataCache = <<>>
    /\ dataCache = {}
    /\ fetches = NoFetches
    /\ imageRequests = <<>>
    /\ preloaded = FALSE
    /\ hpc = "none"
    /\ hIdx = 0
    /\ gens = <<>>
    /\ results = <<>>
    /\ slotWrites = <<>>
    /\ sem = 0
    /\ wg = 0
    /\ response = [status |-> 0]
    /\ fn = NoCall
    /\ fileCache = NoFileCache
    /\ single = NoSingle
    /\ fan = NoFan

LoadUnchanged ==
    UNCHANGED <<template, inputVars, cacheVars, handlerVars, gens, fn, fileCache, single, fan>>

\* the two size checks of the handler of request r
LoadValidate(r) ==
    /\ load[r].pc = "start"
    /\ load' = [load EXCEPT ![r] =
                  IF BatchSizeError(load[r].n) # ""
                  THEN [@ EXCEPT !.pc = "done", !.status = 400,
                                 !.error = BatchSizeError(load[r].n)]
                  ELSE [@ EXCEPT !.pc = "preload"]]
    /\ LoadUnchanged

\* collectImageLayers and cache.PreloadImagesDirect(imageRequests)
LoadPreload(r) ==
    /\ load[r].pc = "preload"
    /\ load' = [load EXCEPT ![r].preloadCalled = TRUE, ![r].pc = "spawn"]
    /\ LoadUnchanged

\* results, wg, sem := make(chan struct{}, 50), and the loop of "go func"
LoadSpawn(r) ==
    /\ load[r].pc = "spawn"
    /\ load' = [load EXCEPT ![r].pending = load[r].n, ![r].pc = "wait"]
    /\ LoadUnchanged

\* sem <- struct{}{} of one goroutine of request r: the sem of that request
LoadAcquire(r) ==
    /\ load[r].pending > 0
    /\ load[r].running < RenderSlots
    /\ load' = [load EXCEPT ![r].pending = @ - 1, ![r].running = @ + 1]
    /\ LoadUnchanged

\* Generate returns, results[idx] = result, <-sem, wg.Done()
LoadFinish(r) ==
    /\ load[r].running > 0
    /\ load' = [load EXCEPT ![r].running = @ - 1, ![r].done = @ + 1]
    /\ LoadUnchanged

\* wg.Wait() returns and the handler answers
LoadRespond(r) ==
    /\ load[r].pc = "wait"
    /\ load[r].done = load[r].n
    /\ load' = [load EXCEPT ![r].pc = "done", ![r].status = 200]
    /\ LoadUnchanged

NextLoad ==
    \/ \E r \in DOMAIN load : LoadValidate(r)
    \/ \E r \in DOMAIN load : LoadPreload(r)
    \/ \E r \in DOMAIN load : LoadSpawn(r)
    \/ \E r \in DOMAIN load : LoadAcquire(r)
    \/ \E r \in DOMAIN load : LoadFinish(r)
    \/ \E r \in DOMAIN load : LoadRespond(r)

SpecLoad == InitLoad /\ [][NextLoad]_vars

-----------------------------------------------------------------------------
(* generator: flex layout.  A float64 is an exact fraction [n, d], d > 0, in
   lowest terms. *)

RECURSIVE GCD(_, _)
GCD(a, b) == IF b = 0 THEN a ELSE GCD(b, a % b)

Abs(x) == IF x < 0 THEN -x ELSE x

Frac(n, d) ==
    LET g == GCD(Abs(n), d)
    IN  [n |-> n \div g, d |-> d \div g]

Num(x) == Frac(x, 1)
FAdd(a, b) == Frac(a.n * b.d + b.n * a.d, a.d * b.d)
FSub(a, b) == Frac(a.n * b.d - b.n * a.d, a.d * b.d)
FDiv(a, k) == Frac(a.n, a.d * k)
FMul(a, b) == Frac(a.n * b.n, a.d * b.d)
FPositive(a) == a.n > 0
FLeq(a, b) == a.n * b.d <= b.n * a.d
FLess(a, b) == a.n * b.d < b.n * a.d

FlexLayout(direction, justify, align, gap) ==
    [direction |-> direction, justify |-> justify, align |-> align, gap |-> gap]

MainSize(layer, isRow) == IF isRow THEN layer.w ELSE layer.h
CrossSize(layer, isRow) == IF isRow THEN layer.h ELSE layer.w

RECURSIVE SumMain(_, _)
SumMain(children, isRow) ==
    IF children = <<>> THEN 0
    ELSE MainSize(Head(children), isRow) + SumMain(Tail(children), isRow)

\* totalSize: the children along the main axis and the gaps between them
TotalSize(children, isRow, gap) == SumMain(children, isRow) + gap * (Len(children) - 1)

\* spacing of the switch on layout.JustifyContent (0 when the case leaves it unset)
Spacing(justify, n, containerSize, totalSize, gap) ==
    LET free == Num(containerSize - totalSize + gap * (n - 1))
    IN  CASE justify = "space-between" -> IF n > 1 THEN FDiv(free, n - 1) ELSE Num(0)
          [] justify = "space-around" -> FDiv(free, n * 2)
          [] justify = "space-evenly" -> FDiv(free, n + 1)
          [] OTHER -> Num(0)

StartPosCenterWhole(justify, containerSize, totalSize, spacing) ==
    CASE justify \in {"center", "flex-end"} -> Num(containerSize - totalSize)
      [] justify \in {"space-around", "space-evenly"} -> spacing
      [] OTHER -> Num(0)

\* startPos of the switch on layout.JustifyContent
StartPos(justify, containerSize, totalSize, spacing) ==
    CASE justify = "center" -> FDiv(Num(containerSize - totalSize), 2)
      [] justify = "flex-end" -> Num(containerSize - totalSize)
      [] justify \in {"space-around", "space-evenly"} -> spacing
      [] OTHER -> Num(0)

crossAlignStart(align, childSize, containerCrossSize) == Num(0)

crossAlign(align, childSize, containerCrossSize) ==
    CASE align = "center" -> FDiv(Num(containerCrossSize - childSize), 2)
      [] align = "flex-end" -> Num(containerCrossSize - childSize)
      [] OTHER -> Num(0)

\* currentPos after a child: += size + gap, and += spacing - gap if spacing > 0
Advance(currentPos, size, gap, spacing) ==
    LET next == FAdd(currentPos, Num(size + gap))
    IN  IF FPositive(spacing) THEN FAdd(next, FSub(spacing, Num(gap))) ELSE next

\* the loop "Assign positions" from child k on: main and cross offset per child
RECURSIVE AssignPositions(_, _, _, _, _, _)
AssignPositions(container, layout, isRow, spacing, k, currentPos) ==
    IF k > Len(container.children) THEN <<>>
    ELSE LET child == container.children[k]
         IN  <<[main |-> currentPos,
                cross |-> crossAlign(layout.align, CrossSize(child, isRow),
                                     CrossSize(container, isRow))]>>
             \o AssignPositions(container, layout, isRow, spacing, k + 1,
                                Advance(currentPos, MainSize(child, isRow),
                                        layout.gap, spacing))

calculateFlexPositions(container, layout) ==
    IF Len(container.children) = 0 THEN <<>>
    ELSE LET isRow == layout.direction = "row"
             n == Len(container.children)
             totalSize == TotalSize(container.children, isRow, layout.gap)
             containerSize == MainSize(container, isRow)
             spacing == Spacing(layout.justify, n, containerSize, totalSize, layout.gap)
             startPos == StartPos(layout.justify, containerSize, totalSize, spacing)
         IN  AssignPositions(container, layout, isRow, spacing, 1, startPos)

-----------------------------------------------------------------------------
(* generator: the font size of a text layer *)

MinFontSize == 4
MaxFontSize == 72

\* renderText: fontSize = Style.FontSize * 72 / dpi, clamped to [4, 72]
ConvertedSize(fontSizePx, dpi) ==
    LET pt == Frac(fontSizePx * 72, dpi)
    IN  IF FLess(pt, Num(MinFontSize)) THEN Num(MinFontSize)
        ELSE IF FLess(Num(MaxFontSize), pt) THEN Num(MaxFontSize)
        ELSE pt

\* calculateAutoFontSize: maxSize before the loop
SearchMax(height, maxFontSize) ==
    LET limit == IF FLeq(maxFontSize, Num(0)) THEN Num(MaxFontSize) ELSE maxFontSize
        fromHeight == Frac(height * 283, 100)
        least == IF FPositive(limit) /\ FLess(limit, fromHeight) THEN limit ELSE fromHeight
    IN  IF FLess(Num(MaxFontSize), least) THEN Num(MaxFontSize) ELSE least

\* g.pdf.GetStringWidth(text) at a font size: mmPerPt millimetres per point
StringWidth(mmPerPt, size) == FMul(Num(mmPerPt), size)

FitsFullWidth(textWidth, width) == FLeq(textWidth, Num(width))

\* textWidth <= width*0.95
Fits(textWidth, width) == FLeq(textWidth, Frac(width * 95, 100))

\* maxSize-minSize > 0.1
Searching(minSize, maxSize) == FLess(Frac(1, 10), FSub(maxSize, minSize))

-----------------------------------------------------------------------------
(* SpecFn: one call of a function of the generator on arguments drawn from
   bounded sets.  Nothing else of the program runs. *)

\* no batch request, no generator
ProgramIdle ==
    /\ template = [assets |-> AssetsStamped, layers |-> <<LBackground>>, dpi |-> 0]
    /\ received = template
    /\ users = <<>>
    /\ imageDataCache = <<>>
    /\ dataCache = {}
    /\ fetches = NoFetches
    /\ imageRequests = <<>>
    /\ preloaded = FALSE
    /\ hpc = "none"
    /\ hIdx = 0
    /\ gens = <<>>
    /\ results = <<>>
    /\ slotWrites = <<>>
    /\ sem = 0
    /\ wg = 0
    /\ response = [status |-> 0]
    /\ load = NoLoad

FnUnchanged ==
    UNCHANGED <<template, inputVars, cacheVars, handlerVars, gens, load, fileCache, single, fan>>

\* a content string is written as pieces: plain text, or {{customFields.<id>}}
TextPiece(text) == [kind |-> "text", text |-> text]
TokenPiece(id) == [kind |-> "token", text |-> id]

PieceText(p) ==
    IF p.kind = "token" THEN <<OpenToken>> \o p.text \o <<CloseToken>> ELSE p.text

RECURSIVE Flatten(_)
Flatten(pieces) ==
    IF pieces = <<>> THEN <<>> ELSE PieceText(Head(pieces)) \o Flatten(Tail(pieces))

IdKnown == <<"a", "b">>
IdUnknown == <<"c", "-", "1">>
IdUpper == <<"A", "B", "C">>

Pieces ==
    {TextPiece(<<"H">>), TextPiece(<<" ">>), TextPiece(<<"!">>), TokenPiece(IdKnown),
     TokenPiece(IdUnknown), TokenPiece(IdUpper), TokenPiece(EmptyStr)}

RECURSIVE SeqsUpTo(_, _)
SeqsUpTo(S, n) ==
    IF n = 0 THEN {<<>>}
    ELSE LET shorter == SeqsUpTo(S, n - 1)
         IN  shorter \cup {Append(q, x) : q \in shorter, x \in S}

UserFields ==
    User(<<"1">>, <<"A">>,
         <<Field(IdKnown, <<"w", " ">>), Field(IdUpper, <<"w", "o", "r", "l", "d", " ">>),
           Field(IdKnown, <<"x">>)>>)

ResolveCalls ==
    {[op |-> "resolve", pieces |-> ps, user |-> u, done |-> FALSE, out |-> EmptyStr] :
        ps \in SeqsUpTo(Pieces, MaxPieces), u \in {UserFields, UserAnon}}

\* g.resolvePlaceholders(content)
Resolve ==
    /\ fn.op = "resolve" /\ ~fn.done
    /\ fn' = [fn EXCEPT !.done = TRUE,
                        !.out = resolvePlaceholders(Flatten(fn.pieces), fn.user)]
    /\ FnUnchanged

\* asset keys as the editor writes them, each with a URL of its own
AssetKeys ==
    {AssetRef, AssetRef \o <<"_", "1", "7">>, AssetRef \o <<"_", "9">>,
     <<"asset_", "1", "_", "5">>}
AssetURL(key) == <<"https://">> \o key

AssetMaps == {[key \in keys |-> AssetURL(key)] : keys \in SUBSET AssetKeys}

AssetCalls ==
    {[op |-> "asset", layer |-> [LBackground EXCEPT !.content = c], assets |-> a,
      done |-> FALSE, out |-> EmptyStr] :
        c \in {AssetRef, <<"asset_", "1">>}, a \in AssetMaps}

\* the imageURL of renderImage and of collectImageLayers for an asset reference
ResolveAsset ==
    /\ fn.op = "asset" /\ ~fn.done
    /\ \E url \in ImageURLs(fn.layer, UserAnon, fn.assets) :
          fn' = [fn EXCEPT !.done = TRUE, !.out = url]
    /\ FnUnchanged

QRContents ==
    {<<>>, <<TextPiece(<<" ">>)>>, <<TextPiece(<<"H">>)>>, <<TokenPiece(IdKnown)>>,
     <<TokenPiece(IdUnknown)>>, <<TokenPiece(IdUpper)>>,
     <<TextPiece(<<"H">>), TokenPiece(IdKnown)>>}

QRCalls ==
    {[op |-> "qr", layer |-> [LQr EXCEPT !.content = Flatten(c), !.opacity = o],
      user |-> User(id, ident, UserFields.fields), done |-> FALSE,
      drawn |-> <<>>, err |-> FALSE] :
        c \in QRContents, o \in {0, 1}, id \in {EmptyStr, <<"1">>},
        ident \in {EmptyStr, <<"A">>}}

\* an empty page, nothing cached
NewPage ==
    [drawn |-> <<>>, calls |-> <<>>, dataCache |-> {}, fetches |-> NoFetches,
     err |-> FALSE]

\* g.renderQRCode(layer, x, y)
RenderQR ==
    /\ fn.op = "qr" /\ ~fn.done
    /\ LET out == renderQRCode(fn.layer, fn.user, NewPage)
       IN  fn' = [fn EXCEPT !.done = TRUE, !.drawn = out.drawn, !.err = out.err]
    /\ FnUnchanged

Justifies ==
    {"flex-start", "center", "flex-end", "space-between", "space-around", "space-evenly"}

\* child i is a square of side sizes[i]
Squares(sizes) ==
    [i \in 1..Len(sizes) |->
        Layer("c", "shape", 0, TRUE, EmptyStr, EmptyStr, sizes[i], sizes[i], 1, "#000", <<>>)]

FlexCalls ==
    {[op |-> "flex",
      container |-> [LBox EXCEPT !.w = box[1], !.h = box[2], !.children = Squares(sizes)],
      layout |-> FlexLayout(dir, j, a, gap), done |-> FALSE, positions |-> <<>>] :
        box \in {<<100, 100>>, <<50, 100>>, <<100, 50>>},
        sizes \in SeqsUpTo({20, 30}, MaxChildren) \ {<<>>},
        dir \in {"row", "column"}, j \in Justifies,
        a \in {"flex-start", "center", "flex-end"}, gap \in {0, 5}}

\* g.calculateFlexPositions(layer, layout)
Flex ==
    /\ fn.op = "flex" /\ ~fn.done
    /\ fn' = [fn EXCEPT !.done = TRUE,
                        !.positions = calculateFlexPositions(fn.container, fn.layout)]
    /\ FnUnchanged

\* an auto-font-size text layer: font size in px, box in mm, and the width of
\* its text per point of font size
FontCalls ==
    {[op |-> "font", fontSizePx |-> px, dpi |-> DefaultDPI, height |-> h, width |-> w,
      mmPerPt |-> k, pc |-> "call", converted |-> Num(0), minSize |-> Num(0),
      maxSize |-> Num(0), iterations |-> 0, done |-> FALSE, out |-> Num(0)] :
        px \in {10, 50, 400}, h \in {1, 5, 30}, w \in {10, 40}, k \in {1, 2, 10}}

\* renderText up to the call, and calculateAutoFontSize up to the loop
FontEnter ==
    /\ fn.op = "font" /\ fn.pc = "call"
    /\ LET converted == ConvertedSize(fn.fontSizePx, fn.dpi)
       IN  fn' = [fn EXCEPT !.pc = "search", !.converted = converted,
                            !.minSize = Num(MinFontSize),
                            !.maxSize = SearchMax(fn.height, converted)]
    /\ FnUnchanged

\* one iteration of the binary search
FontStep ==
    /\ fn.op = "font" /\ fn.pc = "search"
    /\ Searching(fn.minSize, fn.maxSize)
    /\ LET testSize == FDiv(FAdd(fn.minSize, fn.maxSize), 2)
       IN  fn' = IF Fits(StringWidth(fn.mmPerPt, testSize), fn.width)
                 THEN [fn EXCEPT !.minSize = testSize, !.iterations = @ + 1]
                 ELSE [fn EXCEPT !.maxSize = testSize, !.iterations = @ + 1]
    /\ FnUnchanged

\* return minSize
FontReturn ==
    /\ fn.op = "font" /\ fn.pc = "search"
    /\ ~Searching(fn.minSize, fn.maxSize)
    /\ fn' = [fn EXCEPT !.pc = "returned", !.done = TRUE, !.out = fn.minSize]
    /\ FnUnchanged

\* the pixel size handed to the QR encoder

MinQRSize == 100
MaxQRSize == 1024

ClampQR(px) == IF px < MinQRSize THEN MinQRSize ELSE IF px > MaxQRSize THEN MaxQRSize ELSE px

\* the nearest integer instead of the integer part
QRSizeRounded(w, h, dpi) ==
    LET mm == IF h > w THEN h ELSE w
    IN  ClampQR((2 * mm * dpi * 10 + 254) \div 508)

\* qrSize := int((widthMM * float64(g.dpi)) / 25.4), then the two clamps
QRSize(w, h, dpi) ==
    LET mm == IF h > w THEN h ELSE w
    IN  ClampQR((mm * dpi * 10) \div 254)

QRSizeCalls ==
    {[op |-> "qrsize", w |-> w, h |-> h, dpi |-> DPIOf([dpi |-> d]), done |-> FALSE, out |-> 0] :
        w \in {0, 5, 10, 50, 100}, h \in {0, 5, 20, 50, 200}, d \in {0, 72, 150, 600}}

\* renderQRCode from the layer size to qrcode.Encode(qrContent, qrcode.Medium, qrSize)
QREncodeSize ==
    /\ fn.op = "qrsize" /\ ~fn.done
    /\ fn' = [fn EXCEPT !.done = TRUE, !.out = QRSize(fn.w, fn.h, fn.dpi)]
    /\ FnUnchanged

\* renderContainer's layout when layer.ContainerLayout is nil
DefaultLayout == FlexLayout("column", "", "", 0)

\* models.Position of a flex offset: X is the main offset in a row, else the cross offset
OffsetX(p, isRow) == IF isRow THEN p.main ELSE p.cross
OffsetY(p, isRow) == IF isRow THEN p.cross ELSE p.main

AbsPosParentOnly(parent, own) == parent

\* renderLayer: absX = parentPos.X + layer.Position.X (and Y alike)
AbsPos(parent, own) == FAdd(parent, Num(own))

\* renderContainer's loop from child i on: the visible children and where
\* renderLayer puts them
RECURSIVE PlaceChildren(_, _, _, _, _, _)
PlaceChildren(children, childPositions, isRow, x, y, i) ==
    IF i > Len(children) THEN <<>>
    ELSE LET childX == IF i <= Len(childPositions)
                       THEN FAdd(x, OffsetX(childPositions[i], isRow)) ELSE x
             childY == IF i <= Len(childPositions)
                       THEN FAdd(y, OffsetY(childPositions[i], isRow)) ELSE y
             rest == PlaceChildren(children, childPositions, isRow, x, y, i + 1)
         IN  IF ~children[i].visible THEN rest
             ELSE <<[i |-> i, x |-> AbsPos(childX, children[i].x),
                     y |-> AbsPos(childY, children[i].y)]>> \o rest

\* renderLayer on a container below parentPos, and renderContainer's placing
PlaceContainer(layer, layoutNil, parentX, parentY) ==
    LET layout == IF layoutNil THEN DefaultLayout ELSE layer.layout
        x == AbsPos(Num(parentX), layer.x)
        y == AbsPos(Num(parentY), layer.y)
    IN  IF Len(layer.children) = 0 THEN <<>>
        ELSE PlaceChildren(layer.children, calculateFlexPositions(layer, layout),
                           layout.direction = "row", x, y, 1)

\* a layer with its Position
At(layer, x, y) == layer @@ [x |-> x, y |-> y]

\* child i: a square of side kinds[i][1], visible or not, at its own position
PlacedSquares(kinds) ==
    [i \in 1..Len(kinds) |->
        At(Layer("c", "shape", 0, kinds[i][2], EmptyStr, EmptyStr, kinds[i][1], kinds[i][1],
                 1, "#000", <<>>),
           IF kinds[i][1] = 20 THEN 0 ELSE 1, IF kinds[i][1] = 20 THEN 0 ELSE 2)]

PlaceCalls ==
    {[op |-> "place",
      container |-> At([LBox EXCEPT !.w = 100, !.h = 100, !.children = PlacedSquares(kinds)],
                       at[1], at[2]) @@ [layout |-> layout[2]],
      layoutNil |-> layout[1], done |-> FALSE, placed |-> <<>>] :
        kinds \in SeqsUpTo({20, 30} \X BOOLEAN, MaxChildren) \ {<<>>},
        at \in {<<0, 0>>, <<10, 5>>},
        layout \in {<<TRUE, DefaultLayout>>,
                    <<FALSE, FlexLayout("row", "flex-start", "flex-start", 5)>>,
                    <<FALSE, FlexLayout("column", "space-evenly", "center", 0)>>}}

\* g.renderLayer(container, Position{0, 0}) as far as the children's positions
Place ==
    /\ fn.op = "place" /\ ~fn.done
    /\ fn' = [fn EXCEPT !.done = TRUE,
                        !.placed = PlaceContainer(fn.container, fn.layoutNil, 0, 0)]
    /\ FnUnchanged

InitFn ==
    /\ ProgramIdle
    /\ env = [u \in AllURLs |-> "ok"]
    /\ fn \in ResolveCalls \cup AssetCalls \cup QRCalls \cup FlexCalls \cup FontCalls
               \cup QRSizeCalls \cup PlaceCalls
    /\ fileCache = NoFileCache
    /\ single = NoSingle
    /\ fan = NoFan

NextFn ==
    \/ Resolve
    \/ ResolveAsset
    \/ RenderQR
    \/ Flex
    \/ FontEnter
    \/ FontStep
    \/ FontReturn
    \/ QREncodeSize
    \/ Place

SpecFn == InitFn /\ [][NextFn]_vars

-----------------------------------------------------------------------------
(* SpecSingle: one POST /api/badge/generate, from the parsed body to the
   response; Generate runs step by step as gens[1]. *)

AcceptJSON == "application/json"
AcceptHeaders == {AcceptJSON, "application/pdf", "*/*"}

UserIdOnly == User(<<"4">>, EmptyStr, <<>>)
UserIdentifierOnly == User(EmptyStr, <<"D">>, <<Field(PhotoField, UrlP1)>>)
SingleUsers == {UserA, UserAnon, UserIdOnly, UserIdentifierOnly}
SingleLayerLists == DistinctSeqs(BatchPalette, MaxLayers)

\* the request after c.BodyParser: Template.ID, Design.Layers nil or not, Accept
NewSingle(tid, layersNil, accept) ==
    [pc |-> "received", tid |-> tid, layersNil |-> layersNil, accept |-> accept,
     status |-> 0, contentType |-> "", body |-> "", error |-> ""]

\* the two request checks of GenerateBadge
ValidationErrorEitherMissing(s, user) ==
    IF s.tid = 0 /\ s.layersNil THEN "Template is required"
    ELSE IF user.id = EmptyStr \/ user.identifier = EmptyStr THEN "User data is required"
    ELSE ""

ValidationError(s, user) ==
    IF s.tid = 0 /\ s.layersNil THEN "Template is required"
    ELSE IF user.id = EmptyStr /\ user.identifier = EmptyStr THEN "User data is required"
    ELSE ""

SingleValidate ==
    /\ single.pc = "received"
    /\ LET e == ValidationError(single, users[1])
       IN  single' = IF e # ""
                     THEN [single EXCEPT !.pc = "responded", !.status = 400,
                                         !.contentType = AcceptJSON, !.error = e]
                     ELSE [single EXCEPT !.pc = "collect"]
    /\ UNCHANGED <<template, inputVars, cacheVars, handlerVars, gens, load, fn, fileCache, fan>>

\* collectImageLayers(req.Template.Design.Layers); PreloadImagesDirect if any
SinglePreload ==
    /\ single.pc = "collect"
    /\ \E reqs \in collectImageLayers(template.layers, 1, users[1], template.assets,
                                      DPIOf(template), {<<>>}) :
          /\ imageRequests' = reqs
          /\ IF Len(reqs) > 0
             THEN /\ imageDataCache' \in PreloadMaps(reqs, dataCache)
                  /\ fetches' = [u \in AllURLs |->
                                   fetches[u] + Cardinality({r \in PreloadMisses(reqs, dataCache) :
                                                                r.url = u})]
                  /\ dataCache' = dataCache \cup
                                    {ReqKey(r) : r \in PreloadGood(reqs, dataCache)}
                  /\ preloaded' = TRUE
             ELSE /\ imageDataCache' = <<>>
                  /\ UNCHANGED <<fetches, dataCache, preloaded>>
    /\ single' = [single EXCEPT !.pc = "generate"]
    /\ UNCHANGED <<template, inputVars, hpc, hIdx, results, slotWrites, sem, wg,
                   response, gens, load, fn, fileCache, fan>>

\* gen := generator.NewPDFGenerator(...); gen.Generate() is entered
SingleGenerate ==
    /\ single.pc = "generate"
    /\ gens' = <<EnterGenerate(NewGen, Len(template.layers))>>
    /\ single' = [single EXCEPT !.pc = "generating"]
    /\ UNCHANGED <<template, inputVars, cacheVars, handlerVars, load, fn, fileCache, fan>>

\* Generate has returned: 500 on its error, else base64 JSON or the raw PDF
SingleRespond ==
    /\ single.pc = "generating"
    /\ gens[1].pc = "returned"
    /\ single' =
         IF gens[1].err # ""
         THEN [single EXCEPT !.pc = "responded", !.status = 500,
                             !.contentType = AcceptJSON, !.error = "Failed to generate PDF"]
         ELSE IF single.accept = AcceptJSON
         THEN [single EXCEPT !.pc = "responded", !.status = 200,
                             !.contentType = AcceptJSON, !.body = "pdf_base64"]
         ELSE [single EXCEPT !.pc = "responded", !.status = 200,
                             !.contentType = "application/pdf", !.body = "pdf"]
    /\ UNCHANGED <<template, inputVars, cacheVars, handlerVars, gens, load, fn, fileCache, fan>>

InitSingle ==
    /\ template \in [assets : {AssetsStamped}, layers : SingleLayerLists, dpi : {0}]
    /\ received = template
    /\ users \in {<<u>> : u \in SingleUsers}
    /\ env \in {e \in [AllURLs -> {"ok", "404"}] : e[UrlP2] = "ok" /\ e[UrlDirect] = "ok"}
    /\ imageDataCache = <<>>
    /\ dataCache = {}
    /\ fetches = NoFetches
    /\ imageRequests = <<>>
    /\ preloaded = FALSE
    /\ hpc = "none"
    /\ hIdx = 0
    /\ gens = <<NewGen>>
    /\ results = <<>>
    /\ slotWrites = <<>>
    /\ sem = 0
    /\ wg = 0
    /\ response = [status |-> 0]
    /\ load = NoLoad
    /\ fn = NoCall
    /\ fileCache = NoFileCache
    /\ fan = NoFan
    /\ single \in {NewSingle(tid, nil, a) :
                      tid \in {0, 1}, nil \in {l \in BOOLEAN : l => template.layers = <<>>},
                      a \in AcceptHeaders}

NextSingle ==
    \/ SingleValidate
    \/ SinglePreload
    \/ SingleGenerate
    \/ SortCmp(1)
    \/ Swap1(1)
    \/ Swap2(1)
    \/ RenderNext(1)
    \/ Output(1)
    \/ SingleRespond

SpecSingle == InitSingle /\ [][NextSingle]_vars

-----------------------------------------------------------------------------
(* SpecSort: Generate on root lists long enough to leave the insertion sort of
   sort.Slice.  sort.Slice(layers, less) is pdqsort: a range of at most
   maxInsertion elements is sorted by insertion; a longer one is partitioned
   around the median of three elements, the pivot first swapped to the front,
   unless it is found sorted, and the two sides sorted in turn.  The lists
   here have up to maxInsertion + 1 elements, so one partition is all that
   happens. *)

maxInsertion == 12
MaxRoots == maxInsertion + 1

SwapAt(s, i, j) == [s EXCEPT ![i] = s[j], ![j] = s[i]]

\* for j := i; j > a && less(j, j-1); j-- { swap(j, j-1) }
RECURSIVE InsertLeft(_, _, _)
InsertLeft(s, j, lo) ==
    IF j > lo /\ Less(s, j, j - 1) THEN InsertLeft(SwapAt(s, j, j - 1), j - 1, lo) ELSE s

RECURSIVE insertionSort(_, _, _, _)
insertionSort(s, i, lo, hi) ==
    IF i > hi THEN s ELSE insertionSort(InsertLeft(s, i, lo), i + 1, lo, hi)

\* order2 and median of choosePivot, with the count of swaps
order2(s, a, b, swaps) ==
    IF Less(s, b, a) THEN <<b, a, swaps + 1>> ELSE <<a, b, swaps>>

median(s, a, b, c) ==
    LET p == order2(s, a, b, 0)
        q == order2(s, p[2], c, p[3])
        r == order2(s, p[1], q[1], q[3])
    IN  [pivot |-> r[2], swaps |-> r[3]]

\* choosePivot on a range of 8 to 49 elements; no swap means "likely sorted"
choosePivot(s, lo, hi) ==
    LET l == hi - lo + 1
    IN  median(s, lo + (l \div 4), lo + (l \div 4) * 2, lo + (l \div 4) * 3)

\* partialInsertionSort on a range of less than 50 elements changes nothing
\* and reports whether the range is sorted
partialInsertionSort(s, lo, hi) == \A i \in (lo + 1)..hi : ~Less(s, i, i - 1)

RECURSIVE ScanUp(_, _, _, _)
ScanUp(s, i, j, lo) == IF i <= j /\ Less(s, i, lo) THEN ScanUp(s, i + 1, j, lo) ELSE i

RECURSIVE ScanDown(_, _, _, _)
ScanDown(s, i, j, lo) == IF i <= j /\ ~Less(s, j, lo) THEN ScanDown(s, i, j - 1, lo) ELSE j

RECURSIVE PartitionLoop(_, _, _, _)
PartitionLoop(s, i, j, lo) ==
    LET i2 == ScanUp(s, i, j, lo)
        j2 == ScanDown(s, i2, j, lo)
    IN  IF i2 > j2 THEN [s |-> SwapAt(s, j2, lo), mid |-> j2]
        ELSE PartitionLoop(SwapAt(s, i2, j2), i2 + 1, j2 - 1, lo)

partition(s, lo, hi, pivot) == PartitionLoop(SwapAt(s, lo, pivot), lo + 1, hi, lo)

\* pdqsort on a range of at most maxInsertion + 1 elements: after the one
\* partition both sides are short enough for the insertion sort
pdqsort(s, lo, hi) ==
    IF hi - lo + 1 <= maxInsertion THEN insertionSort(s, lo + 1, lo, hi)
    ELSE LET c == choosePivot(s, lo, hi)
         IN  IF c.swaps = 0 /\ partialInsertionSort(s, lo, hi) THEN s
             ELSE LET p == partition(s, lo, hi, c.pivot)
                      left == insertionSort(p.s, lo + 1, lo, p.mid - 1)
                  IN  insertionSort(left, p.mid + 2, p.mid + 1, hi)

SortSlice(layers) == pdqsort(layers, 1, Len(layers))

\* visible root layers, known by their place in the request
RootLayer(k, z) == [id |-> k, z |-> z, visible |-> TRUE]
ZIndexes == {0, 1}

\* Generate is entered with n root layers of z-indexes zs
SortCall(n, zs) ==
    [op |-> "generate", pc |-> "sort", layers |-> [k \in 1..n |-> RootLayer(k, zs[k])],
     visited |-> <<>>]

\* layers := g.template.Design.Layers; sort.Slice(layers, ...)
SortRoots ==
    /\ fn.op = "generate"
    /\ fn.pc = "sort"
    /\ fn' = [fn EXCEPT !.layers = SortSlice(fn.layers),
                        !.pc = IF fn.layers = <<>> THEN "output" ELSE "render"]
    /\ FnUnchanged

\* one iteration of "for _, layer := range layers"
RenderRoot ==
    /\ fn.op = "generate"
    /\ fn.pc = "render"
    /\ LET layer == fn.layers[Len(fn.visited) + 1]
       IN  fn' = [fn EXCEPT !.visited = Append(@, layer),
                            !.pc = IF Len(fn.visited) + 1 = Len(fn.layers)
                                   THEN "output" ELSE "render"]
    /\ FnUnchanged

InitSort ==
    /\ ProgramIdle
    /\ env = [u \in AllURLs |-> "ok"]
    /\ \E n \in 0..MaxRoots : \E zs \in [1..n -> ZIndexes] : fn = SortCall(n, zs)
    /\ fileCache = NoFileCache
    /\ single = NoSingle
    /\ fan = NoFan

NextSort == SortRoots \/ RenderRoot

SpecSort == InitSort /\ [][NextSort]_vars

-----------------------------------------------------------------------------
(* SpecCache: package cache with its file cache, from the start of main on:
   /api/template/preload and /api/cache/clear in any order. *)

CacheURLs == {UrlBg, UrlP1}

\* the package variables before main runs
NewFileCache ==
    [once |-> FALSE, mem |-> {}, dirs |-> FALSE, files |-> {}, clears |-> 0,
     cleared |-> FALSE, lastOp |-> "none", status |-> 0,
     got |-> [u \in CacheURLs |-> "none"]]

\* cache.Init: everything happens inside once.Do
CacheInit(fc) ==
    IF fc.once THEN fc
    ELSE [fc EXCEPT !.once = TRUE, !.mem = {}, !.dirs = TRUE]

\* main: cache.Init(cacheDir), then the server listens
Startup ==
    /\ ~fileCache.once
    /\ fileCache' = [CacheInit(fileCache) EXCEPT !.lastOp = "init"]
    /\ UNCHANGED <<template, inputVars, cacheVars, handlerVars, gens, load, fn, single, fan>>

\* downloadFile: GET, os.Create(destPath + ".tmp"), copy, rename
downloadFile(fc, url) ==
    IF env[url] = "404" THEN [fc |-> fc, err |-> TRUE]
    ELSE IF ~fc.dirs THEN [fc |-> fc, err |-> TRUE]
    ELSE [fc |-> [fc EXCEPT !.files = @ \cup {url}], err |-> FALSE]

\* cache.GetImagePath(url)
GetImagePath(fc, url) ==
    IF url \in fc.mem /\ url \in fc.files THEN [fc |-> fc, err |-> FALSE]
    ELSE IF url \in fc.files
         THEN [fc |-> [fc EXCEPT !.mem = @ \cup {url}], err |-> FALSE]
         ELSE LET dl == downloadFile(fc, url)
              IN  IF dl.err THEN dl
                  ELSE [fc |-> [dl.fc EXCEPT !.mem = @ \cup {url}], err |-> FALSE]

\* POST /api/template/preload with one asset: cache.PreloadImages -> GetImagePath
PreloadTemplate(url) ==
    /\ fileCache.once
    /\ LET r == GetImagePath(fileCache, url)
       IN  fileCache' = [r.fc EXCEPT !.got[url] = IF r.err THEN "error" ELSE "ok",
                                     !.lastOp = "preload"]
    /\ UNCHANGED <<template, inputVars, cacheVars, handlerVars, gens, load, fn, single, fan>>

\* POST /api/cache/clear: cache.ClearCache() = memCache.Flush(), os.RemoveAll(dir);
\* 500 on its error (some files may be gone), else cache.Init("") and success
ClearCache ==
    /\ fileCache.once
    /\ fileCache.clears < MaxClears
    /\ LET flushed == [fileCache EXCEPT !.mem = {}, !.clears = @ + 1, !.lastOp = "clear"]
       IN  \/ fileCache' =
                [CacheInit([flushed EXCEPT !.dirs = FALSE, !.files = {}])
                    EXCEPT !.status = 200, !.cleared = TRUE,
                           !.got = [u \in CacheURLs |-> "none"]]
           \/ \E left \in SUBSET fileCache.files :
                fileCache' = [flushed EXCEPT !.files = left, !.status = 500]
    /\ UNCHANGED <<template, inputVars, cacheVars, handlerVars, gens, load, fn, single, fan>>

InitCache ==
    /\ ProgramIdle
    /\ env \in {e \in [AllURLs -> {"ok", "404"}] : e[UrlP2] = "ok" /\ e[UrlDirect] = "ok"}
    /\ fn = NoCall
    /\ single = NoSingle
    /\ fan = NoFan
    /\ fileCache = NewFileCache

NextCache ==
    \/ Startup
    \/ \E url \in CacheURLs : PreloadTemplate(url)
    \/ ClearCache

SpecCache == InitCache /\ [][NextCache]_vars

-----------------------------------------------------------------------------
(* SpecText: one call of renderText on a text layer.  A string is as wide as
   its characters are many: mmPerPt millimetres per character and point. *)

NewLine == "\n"
TextChars == {"A", " ", NewLine}

\* strings.Split(text, "\n")
RECURSIVE Split(_, _)
Split(s, cur) ==
    IF s = <<>> THEN <<cur>>
    ELSE IF Head(s) = NewLine THEN <<cur>> \o Split(Tail(s), <<>>)
    ELSE Split(Tail(s), Append(cur, Head(s)))

TextWidth(s, mmPerPt, fontSize) == FMul(Num(Len(s) * mmPerPt), fontSize)

FMin(a, b) == IF FLess(b, a) THEN b ELSE a

Cell(call, offset, h, text) == [call |-> call, offset |-> offset, h |-> h, text |-> text]

\* the loop over the lines of the newline branch, from line k on (i = k - 1)
RECURSIVE LineCells(_, _, _, _, _)
LineCells(lines, k, lineHeight, wraps, out) ==
    IF k > Len(lines) THEN out
    ELSE LineCells(lines, k + 1, lineHeight, wraps,
            IF TrimSpace(lines[k]) = EmptyStr THEN out
            ELSE Append(out, Cell(IF wraps[k] THEN "MultiCell" ELSE "CellFormat",
                                  FMul(Num(k - 1), lineHeight), lineHeight, lines[k])))

\* renderText after the font is set: newline branch, wrapping branch, one cell
TextCells(text, width, height, mmPerPt, fontSize) ==
    LET tooWide(s) == ~Fits(TextWidth(s, mmPerPt, fontSize), width)
        leading == FMul(fontSize, Frac(12, 10))
    IN  IF \E i \in 1..Len(text) : text[i] = NewLine
        THEN LET lines == Split(text, <<>>)
                 lineHeight == FMin(leading, Frac(height, Len(lines)))
             IN  LineCells(lines, 1, lineHeight, [k \in 1..Len(lines) |-> tooWide(lines[k])],
                           <<>>)
        ELSE IF tooWide(text)
        THEN <<Cell("MultiCell", Num(0), FMin(leading, Num(height)), text)>>
        ELSE <<Cell("CellFormat", Num(0), Num(height), text)>>

\* text := g.resolvePlaceholders(layer.Content); nothing is drawn for blank text
TextResolve ==
    /\ fn.op = "text" /\ fn.pc = "call"
    /\ LET text == resolvePlaceholders(fn.content, UserAnon)
       IN  fn' = [fn EXCEPT !.text = text,
                            !.pc = IF TrimSpace(text) = EmptyStr THEN "returned" ELSE "draw"]
    /\ FnUnchanged

\* the font size, then the cells
TextDraw ==
    /\ fn.op = "text" /\ fn.pc = "draw"
    /\ LET fontSize == ConvertedSize(fn.fontSizePx, fn.dpi)
       IN  fn' = [fn EXCEPT !.fontSize = fontSize, !.pc = "returned",
                            !.cells = TextCells(fn.text, fn.width, fn.height, fn.mmPerPt,
                                                fontSize)]
    /\ FnUnchanged

TextCall(content, px, h) ==
    [op |-> "text", pc |-> "call", content |-> content, fontSizePx |-> px,
     dpi |-> DefaultDPI, width |-> 40, height |-> h, mmPerPt |-> 1, text |-> EmptyStr,
     fontSize |-> Num(0), cells |-> <<>>]

InitText ==
    /\ ProgramIdle
    /\ env = [u \in AllURLs |-> "ok"]
    /\ \E content \in SeqsUpTo(TextChars, MaxText), px \in {25, 50, 100}, h \in {10, 40} :
          fn = TextCall(content, px, h)
    /\ fileCache = NoFileCache
    /\ single = NoSingle
    /\ fan = NoFan

NextText == TextResolve \/ TextDraw

SpecText == InitText /\ [][NextText]_vars

-----------------------------------------------------------------------------
(* SpecFan: the fan-out of one accepted batch, its render goroutines counted
   by stage: not yet started by the loop, blocked on "sem <-", rendering with a
   token in sem, past "<-sem" but before wg.Done(), and done. *)

NewFan(n) ==
    [n |-> n, pc |-> "loop", i |-> 0, wg |-> 0, waiting |-> 0, rendering |-> 0, sem |-> 0, released |-> 0,
     done |-> 0, written |-> 0, status |-> 0]

FanSizes == (1..MaxFan) \cup {RenderSlots + 1}

\* one iteration of "for i, userData := range req.Users": wg.Add(1); go func(...)
FanSpawn ==
    /\ fan.pc = "loop"
    /\ fan' = [fan EXCEPT !.i = @ + 1, !.wg = @ + 1, !.waiting = @ + 1,
                          !.pc = IF fan.i + 1 = fan.n THEN "wait" ELSE "loop"]
    /\ UNCHANGED <<template, inputVars, cacheVars, handlerVars, gens, load, fn, fileCache, single>>

\* sem <- struct{}{} of one goroutine: blocks while the channel holds 50 tokens
FanAcquire ==
    /\ fan.waiting > 0
    /\ fan.sem < RenderSlots
    /\ fan' = [fan EXCEPT !.waiting = @ - 1, !.rendering = @ + 1, !.sem = @ + 1]
    /\ UNCHANGED <<template, inputVars, cacheVars, handlerVars, gens, load, fn, fileCache, single>>

\* the deferred func() { <-sem }() takes one token out, whatever Generate returned
ReleaseUnlessError(tokens, ok) == IF ok THEN tokens - 1 ELSE tokens

Release(tokens, ok) == tokens - 1

\* Generate returns (bytes or error), results[idx] = result, and the function
\* returns: the deferred <-sem runs first
FanFinish ==
    /\ fan.rendering > 0
    /\ \E ok \in BOOLEAN :
          fan' = [fan EXCEPT !.rendering = @ - 1, !.sem = Release(@, ok),
                             !.released = @ + 1, !.written = @ + 1]
    /\ UNCHANGED <<template, inputVars, cacheVars, handlerVars, gens, load, fn, fileCache, single>>

\* ... and the deferred wg.Done() last
FanDone ==
    /\ fan.released > 0
    /\ fan' = [fan EXCEPT !.released = @ - 1, !.done = @ + 1, !.wg = @ - 1]
    /\ UNCHANGED <<template, inputVars, cacheVars, handlerVars, gens, load, fn, fileCache, single>>

WaitReturnsAtOnce(counter) == TRUE

\* wg.Wait() returns
WaitReturns(counter) == counter = 0

\* wg.Wait(); count the successes; c.JSON(...)
FanRespond ==
    /\ fan.pc = "wait"
    /\ WaitReturns(fan.wg)
    /\ fan' = [fan EXCEPT !.pc = "done", !.status = 200]
    /\ UNCHANGED <<template, inputVars, cacheVars, handlerVars, gens, load, fn, fileCache, single>>

InitFan ==
    /\ ProgramIdle
    /\ env = [u \in AllURLs |-> "ok"]
    /\ fn = NoCall
    /\ fileCache = NoFileCache
    /\ single = NoSingle
    /\ \E n \in FanSizes : fan = NewFan(n)

NextFan == FanSpawn \/ FanAcquire \/ FanFinish \/ FanDone \/ FanRespond

SpecFan == InitFan /\ [][NextFan]_vars

\* the Go scheduler runs every goroutine that can take a step
FairFan == InitFan /\ [][NextFan]_vars /\ WF_vars(NextFan)

-----------------------------------------------------------------------------
(* SpecCollect: POST /api/badge/generate on templates whose image layers share
   URLs, repeat sizes, sit two containers deep, or name an asset by a part of
   several keys. *)

AssetsAmbiguous ==
    ((AssetRef \o <<"_", "1", "7">>) :> UrlBg) @@ ((AssetRef \o <<"_", "1", "8">>) :> UrlP2)

LBackgroundTwin == Layer("bg2", "image", 3, TRUE, AssetRef, EmptyStr, 8, 5, 1, "", <<>>)
LBackgroundSmall == Layer("bgs", "image", 3, TRUE, AssetRef, EmptyStr, 2, 2, 1, "", <<>>)
LNest == Layer("nest", "container", 1, TRUE, EmptyStr, EmptyStr, 8, 5, 1, "", <<LBox, LHidden>>)
CollectPalette == {LBackground, LBackgroundTwin, LBackgroundSmall, LNest, LPhoto}

InitCollect ==
    /\ template \in [assets : {AssetsStamped, AssetsAmbiguous},
                     layers : DistinctSeqs(CollectPalette, MaxLayers) \ {<<>>}, dpi : {0}]
    /\ received = template
    /\ users = <<UserA>>
    /\ env \in {e \in [AllURLs -> {"ok", "404"}] :
                   e[UrlP1] = "ok" /\ e[UrlP2] = "ok" /\ e[UrlDirect] = "ok"}
    /\ imageDataCache = <<>>
    /\ dataCache = {}
    /\ fetches = NoFetches
    /\ imageRequests = <<>>
    /\ preloaded = FALSE
    /\ hpc = "none"
    /\ hIdx = 0
    /\ gens = <<NewGen>>
    /\ results = <<>>
    /\ slotWrites = <<>>
    /\ sem = 0
    /\ wg = 0
    /\ response = [status |-> 0]
    /\ load = NoLoad
    /\ fn = NoCall
    /\ fileCache = NoFileCache
    /\ fan = NoFan
    /\ single = NewSingle(1, FALSE, AcceptJSON)

SpecCollect == InitCollect /\ [][NextSingle]_vars

-----------------------------------------------------------------------------
(* SpecPath: goroutines in cache.GetImagePath at the same time, called
   directly or by the goroutines of cache.PreloadImages.  A file of the cache
   is "none", "full" (size > 0) or "empty" (size 0); fileMu is the writer that
   holds it (0: nobody) and the number of readers. *)

MaxCallers == 2
PreloadSlots == 20

Caller(url, via) ==
    [url |-> url, via |-> via, pc |-> IF via = "preload" THEN "spawned" ELSE "start",
     result |-> "none", sawFile |-> FALSE]

NewPathCache(files, callers) ==
    [mem |-> {}, files |-> files, mu |-> [writer |-> 0, readers |-> 0], sem |-> 0,
     downloads |-> [u \in CacheURLs |-> 0], callers |-> callers]

\* os.Stat(path): err == nil && stat != nil && stat.Size() > 0
StatOk(fc, url) == fc.files[url] = "full"

\* return from GetImagePath; a goroutine of PreloadImages then runs <-sem
Return(fc, g, ok, saw) ==
    [fc EXCEPT !.callers[g].pc = "returned",
               !.callers[g].result = IF ok THEN "ok" ELSE "error",
               !.callers[g].sawFile = saw,
               !.sem = IF fc.callers[g].via = "preload" THEN @ - 1 ELSE @]

\* the deferred fileMu.Unlock()
Unlock(fc) == [fc EXCEPT !.mu.writer = 0]

\* memCache.Set("img:" + cacheKey, cachePath, ...)
MemSet(fc, url) == [fc EXCEPT !.mem = @ \cup {url}]

PathFrame ==
    UNCHANGED <<template, inputVars, cacheVars, handlerVars, gens, load, fn, single, fan>>

\* PreloadImages' goroutine: sem <- struct{}{}
PathAcquire(g) ==
    /\ fileCache.callers[g].pc = "spawned"
    /\ fileCache.sem < PreloadSlots
    /\ fileCache' = [fileCache EXCEPT !.sem = @ + 1, !.callers[g].pc = "start"]
    /\ PathFrame

\* memCache.Get and the stat of the cached path
PathMemCheck(g) ==
    /\ fileCache.callers[g].pc = "start"
    /\ LET url == fileCache.callers[g].url
       IN  fileCache' =
             IF url \in fileCache.mem /\ StatOk(fileCache, url)
             THEN Return(fileCache, g, TRUE, TRUE)
             ELSE [fileCache EXCEPT !.callers[g].pc = "rlock"]
    /\ PathFrame

\* fileMu.RLock()
PathRLock(g) ==
    /\ fileCache.callers[g].pc = "rlock"
    /\ fileCache.mu.writer = 0
    /\ fileCache' = [fileCache EXCEPT !.mu.readers = @ + 1, !.callers[g].pc = "rstat"]
    /\ PathFrame

\* os.Stat(cachePath); fileMu.RUnlock(); return the path if the file is there
PathRStat(g) ==
    /\ fileCache.callers[g].pc = "rstat"
    /\ LET url == fileCache.callers[g].url
           unlocked == [fileCache EXCEPT !.mu.readers = @ - 1]
       IN  fileCache' =
             IF StatOk(fileCache, url)
             THEN Return(MemSet(unlocked, url), g, TRUE, TRUE)
             ELSE [unlocked EXCEPT !.callers[g].pc = "lock"]
    /\ PathFrame

CanLockAlways(mu) == TRUE

\* fileMu.Lock() waits for the writer and for every reader
CanLock(mu) == mu.writer = 0 /\ mu.readers = 0

PathLock(g) ==
    /\ fileCache.callers[g].pc = "lock"
    /\ CanLock(fileCache.mu)
    /\ fileCache' = [fileCache EXCEPT !.mu.writer = g, !.callers[g].pc = "recheck"]
    /\ PathFrame

\* the second stat, with the lock held
PathRecheck(g) ==
    /\ fileCache.callers[g].pc = "recheck"
    /\ LET url == fileCache.callers[g].url
       IN  fileCache' =
             IF StatOk(fileCache, url)
             THEN Return(Unlock(MemSet(fileCache, url)), g, TRUE, TRUE)
             ELSE [fileCache EXCEPT !.callers[g].pc = "download"]
    /\ PathFrame

\* downloadFile: httpClient.Get and the status; the body goes to destPath + ".tmp"
PathGet(g) ==
    /\ fileCache.callers[g].pc = "download"
    /\ LET url == fileCache.callers[g].url
           asked == [fileCache EXCEPT !.downloads[url] = @ + 1]
       IN  fileCache' =
             IF env[url] = "404"
             THEN Return(Unlock(asked), g, FALSE, FALSE)
             ELSE [asked EXCEPT !.callers[g].pc = "copy"]
    /\ PathFrame

\* downloadFile: os.Rename(tmpPath, destPath)
PathRename(g) ==
    /\ fileCache.callers[g].pc = "copy"
    /\ LET url == fileCache.callers[g].url
       IN  fileCache' = [fileCache EXCEPT
                            !.files[url] = IF env[url] = "empty" THEN "empty" ELSE "full",
                            !.callers[g].pc = "validate"]
    /\ PathFrame

\* the stat of the downloaded file
PathValidate(g) ==
    /\ fileCache.callers[g].pc = "validate"
    /\ LET url == fileCache.callers[g].url
       IN  fileCache' =
             IF StatOk(fileCache, url)
             THEN Return(Unlock(MemSet(fileCache, url)), g, TRUE, TRUE)
             ELSE Return(Unlock(fileCache), g, FALSE, FALSE)
    /\ PathFrame

\* an entry of memCache reaches its expiration
PathExpire(url) ==
    /\ url \in fileCache.mem
    /\ fileCache' = [fileCache EXCEPT !.mem = @ \ {url}]
    /\ PathFrame

InitPath ==
    /\ ProgramIdle
    /\ env \in {e \in [AllURLs -> {"ok", "404", "empty"}] :
                   \A u \in AllURLs \ CacheURLs : e[u] = "ok"}
    /\ fn = NoCall
    /\ single = NoSingle
    /\ fan = NoFan
    /\ \E n \in 1..MaxCallers :
          \E files \in [CacheURLs -> {"none", "full"}] :
             \E callers \in [1..n -> {Caller(u, via) : u \in CacheURLs,
                                                       via \in {"direct", "preload"}}] :
                fileCache = NewPathCache(files, callers)

NextPath ==
    \/ \E g \in DOMAIN fileCache.callers : PathAcquire(g)
    \/ \E g \in DOMAIN fileCache.callers : PathMemCheck(g)
    \/ \E g \in DOMAIN fileCache.callers : PathRLock(g)
    \/ \E g \in DOMAIN fileCache.callers : PathRStat(g)
    \/ \E g \in DOMAIN fileCache.callers : PathLock(g)
    \/ \E g \in DOMAIN fileCache.callers : PathRecheck(g)
    \/ \E g \in DOMAIN fileCache.callers : PathGet(g)
    \/ \E g \in DOMAIN fileCache.callers : PathRename(g)
    \/ \E g \in DOMAIN fileCache.callers : PathValidate(g)
    \/ \E url \in CacheURLs : PathExpire(url)

SpecPath == InitPath /\ [][NextPath]_vars

-----------------------------------------------------------------------------
(* What the request asks to be on the page, read off the received template *)

\* the ids of the root layers whose Visible flag is vis
RootIds(layers, vis) ==
    {layers[k].id : k \in {x \in 1..Len(layers) : layers[x].visible = vis}}

\* every layer renderLayer is due to be called on: the visible root layers and,
\* inside visible containers, their visible children (the palette nests one level)
DueLayers(layers) ==
    LET roots == {layers[k] : k \in {x \in 1..Len(layers) : layers[x].visible}}
        kids(c) == {c.children[k] : k \in {x \in 1..Len(c.children) : c.children[x].visible}}
    IN  roots \cup UNION {kids(c) : c \in {r \in roots : r.type = "container"}}

\* the URL of an image layer of these inputs (their asset maps hold one URL)
TheURL(layer, user) == CHOOSE url \in ImageURLs(layer, user, received.assets) : TRUE

HasPicture(layer, user) ==
    CASE layer.type = "image" -> TheURL(layer, user) # EmptyStr /\ layer.opacity # 0
      [] layer.type = "qrcode" -> layer.opacity # 0
      [] layer.type = "shape" -> layer.bg \notin {"", "transparent"}
      [] OTHER -> FALSE

\* the layer's own rendering fails: the image cannot be fetched, processed or
\* registered, or the QR code has nothing to encode
LayerFails(layer, user) ==
    /\ HasPicture(layer, user)
    /\ CASE layer.type = "image" ->
               IF TheURL(layer, user) \in DOMAIN imageDataCache
               THEN env[TheURL(layer, user)] = "unregistrable"
               ELSE env[TheURL(layer, user)] # "ok"
         [] layer.type = "qrcode" -> user.identifier = EmptyStr /\ user.id = EmptyStr
         [] OTHER -> FALSE

-----------------------------------------------------------------------------
(* C1: Generate returns the PDF with no error whatever layers fail (the only
   error it returns is that of the PDF byte emission); each failing layer is
   left out, and renderLayer is still called on every visible root layer and
   every visible child of a visible container, each of which is drawn unless
   it fails or has nothing to draw. *)
C1_FailingLayersOmitted ==
    \A w \in DOMAIN gens :
        LET g == gens[w]
            due == DueLayers(received.layers)
        IN  (g.pc = "returned" /\ ~g.emitFailed) =>
               /\ g.err = "" /\ g.pdf
               /\ SeqSet(g.calls) = {l.id : l \in due}
               /\ SeqIds(g.drawn) =
                     {l.id : l \in {x \in due : HasPicture(x, users[w])
                                                 /\ ~LayerFails(x, users[w])}}

\* a badge came out although a root layer and a container child failed
C1_Witness ==
    \E w \in DOMAIN gens :
        /\ gens[w].pc = "returned" /\ gens[w].pdf
        /\ gens[w].drawn # <<>>
        /\ \E a, b \in DueLayers(received.layers) :
              /\ a.id = "bg" /\ LayerFails(a, users[w])
              /\ b.id \in {"cqr", "cphoto", "clogo"} /\ LayerFails(b, users[w])

(* C3: whatever the order of the root layer list, the visible root layers are
   rendered in non-decreasing z-index, each once, and no invisible root layer
   is rendered. *)
C3_ZOrder ==
    \A w \in DOMAIN gens :
        LET v == gens[w].visited
        IN  /\ \A a, b \in 1..Len(v) : a < b => v[a][2] <= v[b][2]
            /\ \A a, b \in 1..Len(v) : a # b => v[a][1] # v[b][1]
            /\ {v[k][1] : k \in 1..Len(v)} \subseteq RootIds(received.layers, TRUE)
            /\ gens[w].pc \in {"output", "returned"} =>
                  {v[k][1] : k \in 1..Len(v)} = RootIds(received.layers, TRUE)
            /\ SeqSet(gens[w].calls) \cap RootIds(received.layers, FALSE) = {}

\* a list given in descending z-index, with an invisible layer, was rendered ascending
C3_Witness ==
    \E w \in DOMAIN gens :
        /\ gens[w].pc = "returned"
        /\ Len(received.layers) = 3
        /\ received.layers[1].z > received.layers[2].z
        /\ received.layers[2].z > received.layers[3].z
        /\ Len(gens[w].visited) = 2
        /\ gens[w].visited[1][2] < gens[w].visited[2][2]

-----------------------------------------------------------------------------
(* The batch cases *)

Answered == hpc = "done" /\ response.status = 200

\* the users whose data-bound image URL cannot be fetched
FailingUsers ==
    {i \in 1..Len(users) :
        \E k \in 1..Len(received.layers) :
            LET layer == received.layers[k]
            IN  /\ layer.visible /\ layer.type = "image"
                /\ layer.dataBinding # EmptyStr
                /\ TheURL(layer, users[i]) # EmptyStr
                /\ env[TheURL(layer, users[i])] = "404"}

\* exactly one user's data-bound URL fails, every other URL is reachable
OneUserFails ==
    /\ Len(users) >= 2
    /\ Cardinality(FailingUsers) = 1
    /\ env[UrlBg] = "ok"

NoEmissionFailed == \A w \in DOMAIN gens : ~gens[w].emitFailed

(* C2 as stated: when exactly one user's data-bound URL cannot be fetched, that
   user's result has success=false with a non-empty error and every other
   user's result has success=true. *)
C2_FailingUserReported ==
    (Answered /\ OneUserFails /\ NoEmissionFailed) =>
        \A i \in 1..Len(users) :
            IF i \in FailingUsers
            THEN ~response.results[i].success /\ response.results[i].error # ""
            ELSE response.results[i].success

(* C2: when exactly one user's data-bound URL cannot be fetched, every user's
   result, the failing user's included, has success=true and that user's badge
   merely lacks the image; a result has success=false, with a non-empty error,
   only when the emission of that user's PDF fails. *)
C2_FailingImageOmitted ==
    (Answered /\ OneUserFails) =>
        \A i \in 1..Len(users) :
            LET r == response.results[i]
            IN  /\ r.success = ~gens[i].emitFailed
                /\ r.success = (r.error = "")
                /\ r.success = r.pdf
                /\ i \in FailingUsers => "photo" \notin SeqIds(gens[i].drawn)

\* the user whose photo could not be fetched got a badge with success=true
C2_Witness ==
    /\ Answered /\ OneUserFails
    /\ \E i \in FailingUsers :
          /\ response.results[i].success
          /\ "photo" \in SeqSet(gens[i].calls)
          /\ "photo" \notin SeqIds(gens[i].drawn)
    /\ \A i \in 1..Len(users) : response.results[i].success

(* C4: in the answer of a batch, results[i] carries the user_id and identifier
   of users[i] and the outcome of the render of users[i], under every
   interleaving of the render goroutines; every slot is assigned exactly once,
   by the goroutine of its own index. *)
C4_ResultsKeepInputIndex ==
    /\ \A i \in DOMAIN slotWrites : slotWrites[i] <= 1
    /\ Answered =>
          \A i \in 1..Len(users) :
              LET r == response.results[i]
              IN  /\ r.user_id = users[i].id
                  /\ r.identifier = users[i].identifier
                  /\ r.success = (gens[i].err = "")
                  /\ r.error = gens[i].err
                  /\ r.pdf = gens[i].pdf
                  /\ slotWrites[i] = 1

\* two users whose renders ended differently, each outcome in its own slot
C4_Witness ==
    /\ Answered
    /\ Len(users) = 2
    /\ response.results[1].user_id = UserA.id /\ ~response.results[1].success
    /\ response.results[2].user_id = UserB.id /\ response.results[2].success
    /\ gens[1].emitFailed /\ ~gens[2].emitFailed

\* the visible root layers of the received template, in ascending z-index
RECURSIVE InZOrder(_)
InZOrder(S) ==
    IF S = {} THEN <<>>
    ELSE LET first == CHOOSE x \in S : \A y \in S : x.z <= y.z
         IN  <<<<first.id, first.z>>>> \o InZOrder(S \ {first})

VisibleRoots ==
    {received.layers[k] : k \in {x \in 1..Len(received.layers) : received.layers[x].visible}}

(* C5 as stated: the renders of one batch leave the template they share as it
   is, so that under every interleaving each render visits every visible root
   layer exactly once, in non-decreasing z-index. *)
C5_EachRenderVisitsOnceInOrder ==
    \A w \in DOMAIN gens :
        gens[w].pc \in {"output", "done"} => gens[w].visited = InZOrder(VisibleRoots)

(* C7: the answer of a batch has total = number of users = length of results;
   its success flag is true exactly when every per-user result has
   success=true; and a failed user leaves every other user rendered. *)
C7_AggregateIsAll ==
    Answered =>
        /\ response.total = Len(users)
        /\ Len(response.results) = Len(users)
        /\ response.success = (\A i \in 1..Len(users) : response.results[i].success)
        /\ \A i \in 1..Len(users) :
              /\ gens[i].pc = "done"
              /\ response.results[i].success \/ response.results[i].error # ""
              /\ response.results[i].success = response.results[i].pdf

\* one user failed, the other got a PDF, the aggregate flag is false
C7_Witness ==
    /\ Answered
    /\ ~response.success
    /\ response.total = 2
    /\ \E i, j \in 1..Len(users) :
          /\ ~response.results[i].success
          /\ response.results[j].success /\ gens[j].drawn # <<>>

\* what the preload pass is asked for, for user i
RequestsOf(i) ==
    {ImageRequest(TheURL(layer, users[i]), layer.w, layer.h, DPIOf(received)) :
        layer \in {l \in DueLayers(received.layers) :
                      l.type = "image" /\ TheURL(l, users[i]) # EmptyStr}}

(* C8 as stated: before any badge is rendered, the request list handed to the
   preload holds (URL, width, height, DPI) for every user of the batch and
   every visible image layer that resolves to a URL for that user. *)
C8_PreloadCoversEveryUser ==
    preloaded => \A i \in 1..Len(users) : RequestsOf(i) \subseteq SeqSet(imageRequests)

\* the template shows the shared background asset, and it can be fetched
SharedBackground ==
    /\ \E k \in 1..Len(received.layers) : received.layers[k] = LBackground
    /\ env[UrlBg] = "ok"

(* C9: in a batch whose template shows one shared, fetchable background asset,
   the asset URL is fetched once, by the preload pass, and by no render; and
   every user whose PDF emission does not fail has success=true. *)
C9_SharedAssetFetchedOnce ==
    SharedBackground =>
        /\ fetches[UrlBg] = IF preloaded THEN 1 ELSE 0
        /\ UrlBg \in DOMAIN imageDataCache <=> preloaded
        /\ (Answered /\ NoEmissionFailed) =>
              /\ response.success
              /\ \A i \in 1..Len(users) : response.results[i].success

\* two users, both badges show the background, the asset was fetched once
C9_Witness ==
    /\ Answered /\ SharedBackground
    /\ Len(users) = 2
    /\ fetches[UrlBg] = 1
    /\ \A i \in 1..Len(users) :
          /\ response.results[i].success
          /\ "bg" \in SeqIds(gens[i].drawn)

-----------------------------------------------------------------------------
(* The size and concurrency limits *)

SizeAccepted(n) == n >= 1 /\ n <= 500

(* C6: a batch is processed only when it has 1 to 500 users: with 0 or more
   than 500 users it is answered 400 before the preload is called and before
   any render goroutine exists; with 1 to 500 users it is never answered 400. *)
C6_BatchSizeChecked ==
    \A r \in DOMAIN load :
        IF SizeAccepted(load[r].n)
        THEN /\ load[r].status # 400
             /\ load[r].pc = "done" => load[r].status = 200 /\ load[r].done = load[r].n
        ELSE /\ ~load[r].preloadCalled
             /\ load[r].pending + load[r].running + load[r].done = 0
             /\ load[r].pc \in {"start", "done"}
             /\ load[r].pc = "done" => load[r].status = 400 /\ load[r].error # ""

\* a batch of 501 users was refused while a batch of one user was answered
C6_Witness ==
    /\ load # NoLoad
    /\ load[BigRequest].n = 501
    /\ load[BigRequest].status = 400 /\ ~load[BigRequest].preloadCalled
    /\ load[SmallRequest].n = 1
    /\ load[SmallRequest].status = 200 /\ load[SmallRequest].done = 1

RECURSIVE RunningIn(_)
RunningIn(rs) ==
    IF rs = {} THEN 0
    ELSE LET r == CHOOSE x \in rs : TRUE
         IN  load[r].running + RunningIn(rs \ {r})

(* C10 as stated: at every moment at most 50 badge renders are executing in the
   whole process, also when several batch requests are in flight. *)
C10_ProcessWideCap == RunningIn(DOMAIN load) <= 50

-----------------------------------------------------------------------------
(* The functions of the generator *)

IsHexId(id) ==
    /\ id # <<>>
    /\ \A k \in 1..Len(id) :
          id[k] \in {"a", "b", "c", "d", "e", "f", "0", "1", "2", "3", "4", "5", "6",
                     "7", "8", "9", "-"}

\* the first value the user has under this id, "" without one
ValueOf(user, id) ==
    IF \E k \in 1..Len(user.fields) : user.fields[k].fieldId = id
    THEN user.fields[CHOOSE k \in 1..Len(user.fields) :
                        /\ user.fields[k].fieldId = id
                        /\ \A m \in 1..(k - 1) : user.fields[m].fieldId # id].value
    ELSE EmptyStr

\* the words of a string, and the words joined by single spaces
RECURSIVE Words(_, _)
Words(s, word) ==
    IF s = <<>> THEN (IF word = <<>> THEN <<>> ELSE <<word>>)
    ELSE IF Head(s) \in {" ", "\n", "\t"}
         THEN (IF word = <<>> THEN <<>> ELSE <<word>>) \o Words(Tail(s), <<>>)
         ELSE Words(Tail(s), Append(word, Head(s)))

RECURSIVE Join(_)
Join(words) ==
    IF words = <<>> THEN <<>>
    ELSE IF Len(words) = 1 THEN words[1]
    ELSE words[1] \o <<" ">> \o Join(Tail(words))

\* the pieces with every token replaced by what pick says of it
RECURSIVE Substituted(_, _, _)
Substituted(pieces, user, anyId) ==
    IF pieces = <<>> THEN <<>>
    ELSE LET p == Head(pieces)
         IN  (IF p.kind = "token" /\ (IF anyId THEN p.text # <<>> ELSE IsHexId(p.text))
              THEN ValueOf(user, p.text)
              ELSE PieceText(p)) \o Substituted(Tail(pieces), user, anyId)

Resolved == fn.op = "resolve" /\ fn.done

(* C11 as stated: resolve replaces every token {{customFields.<id>}}, whatever
   the id, by the user's value under that id or by the empty string, and leaves
   no token in the output. *)
C11_EveryTokenReplaced ==
    (Resolved /\ \A k \in 1..Len(fn.pieces) : fn.pieces[k] # TokenPiece(EmptyStr)) =>
        /\ fn.out = Join(Words(Substituted(fn.pieces, fn.user, TRUE), <<>>))
        /\ \A k \in 1..Len(fn.out) : fn.out[k] # OpenToken

(* C11: resolve replaces every token {{customFields.<id>}} whose id is a
   non-empty run of the characters a-f, 0-9 and "-" by the user's first value
   under that id, or by the empty string without one; a token with any other
   id stays in the output as it is; the result is then trimmed and every run
   of whitespace becomes one space. *)
C11_HexTokensReplaced ==
    Resolved => fn.out = Join(Words(Substituted(fn.pieces, fn.user, FALSE), <<>>))

\* "{{customFields.ab}}!{{customFields.ABC}}" with ab -> "w " and ABC -> "world "
\* came out as "w !{{customFields.ABC}}"
C11_Witness ==
    /\ Resolved
    /\ fn.pieces = <<TokenPiece(IdKnown), TextPiece(<<"!">>), TokenPiece(IdUpper)>>
    /\ fn.user = UserFields
    /\ fn.out = <<"w", " ", "!", OpenToken, "A", "B", "C", CloseToken>>

AssetResolved == fn.op = "asset" /\ fn.done

KeysContaining(content, assets) ==
    {key \in DOMAIN assets :
        \E i \in 1..Len(key) :
            /\ i + Len(content) - 1 <= Len(key)
            /\ \A k \in 1..Len(content) : key[i + k - 1] = content[k]}

(* C12: an image layer whose content starts with "asset_" resolves to the URL
   under the key equal to the content when there is one, and only otherwise
   to the URL under a key that contains the content; an exact key always wins
   over a substring match. *)
C12_ExactKeyFirst ==
    AssetResolved =>
        IF fn.layer.content \in DOMAIN fn.assets
        THEN fn.out = fn.assets[fn.layer.content]
        ELSE IF KeysContaining(fn.layer.content, fn.assets) # {}
             THEN \E key \in KeysContaining(fn.layer.content, fn.assets) :
                     fn.out = fn.assets[key]
             ELSE fn.out = EmptyStr

\* asset_0 is a key next to asset_0_17 and asset_0_9, and its own URL was taken
C12_Witness ==
    /\ AssetResolved
    /\ fn.layer.content = AssetRef
    /\ DOMAIN fn.assets = {AssetRef, AssetRef \o <<"_", "1", "7">>, AssetRef \o <<"_", "9">>}
    /\ fn.out = AssetURL(AssetRef)

QRRendered == fn.op = "qr" /\ fn.done

\* what the chain says is encoded; "" when there is nothing to encode
ChainContent ==
    LET resolved == resolvePlaceholders(fn.layer.content, fn.user)
        unresolved == \E k \in 1..Len(resolved) : resolved[k] \in {OpenToken, "{{"}
    IN  CASE resolved # EmptyStr /\ ~unresolved -> resolved
          [] fn.user.identifier # EmptyStr -> fn.user.identifier
          [] OTHER -> fn.user.id

(* C13: a QR layer of non-zero opacity encodes its content after placeholder
   resolution; if that is empty or still contains "{{", user.identifier; if
   that is empty, user.id; if that is empty too the layer fails and nothing is
   drawn for it.  A QR layer with empty content and a non-empty identifier is
   drawn encoding the identifier. *)
C13_QRContentChain ==
    (QRRendered /\ fn.layer.opacity # 0) =>
        IF ChainContent = EmptyStr
        THEN fn.err /\ fn.drawn = <<>>
        ELSE /\ ~fn.err
             /\ Len(fn.drawn) = 1
             /\ fn.drawn[1].kind = "qrcode" /\ fn.drawn[1].text = ChainContent
             /\ (fn.layer.content = EmptyStr /\ fn.user.identifier # EmptyStr) =>
                   fn.drawn[1].text = fn.user.identifier

\* an unresolved token in the content, no identifier: the QR encodes the user id
C13_Witness ==
    /\ QRRendered /\ fn.layer.opacity # 0
    /\ fn.layer.content = Flatten(<<TokenPiece(IdUpper)>>)
    /\ fn.user.identifier = EmptyStr
    /\ fn.user.id = <<"1">>
    /\ Len(fn.drawn) = 1 /\ fn.drawn[1].text = <<"1">>

-----------------------------------------------------------------------------
(* Flex layout *)

FlexDone == fn.op = "flex" /\ fn.done

FlexRow == fn.layout.direction = "row"
FlexN == Len(fn.container.children)
FlexMain == IF FlexRow THEN fn.container.w ELSE fn.container.h
FlexCross == IF FlexRow THEN fn.container.h ELSE fn.container.w
ChildMain(k) == IF FlexRow THEN fn.container.children[k].w ELSE fn.container.children[k].h
ChildCross(k) == IF FlexRow THEN fn.container.children[k].h ELSE fn.container.children[k].w

RECURSIVE ChildrenBefore(_)
ChildrenBefore(k) == IF k <= 1 THEN 0 ELSE ChildrenBefore(k - 1) + ChildMain(k - 1)

ChildrenSum == ChildrenBefore(FlexN + 1)
FlexTotal == ChildrenSum + fn.layout.gap * (FlexN - 1)

\* the main offsets of the call, and the offsets when child k starts at from + (k-1)*step
\* after the children before it
MainOffsets == [k \in 1..FlexN |-> fn.positions[k].main]
Spread(from, step) ==
    [k \in 1..FlexN |->
        FAdd(from, FAdd(Num(ChildrenBefore(k)), Frac(step.n * (k - 1), step.d)))]

\* a row of main size 100 with three children of main size 20 and gap 0
ThreeInHundred(justify) ==
    /\ FlexDone /\ FlexRow
    /\ fn.layout.justify = justify /\ fn.layout.gap = 0
    /\ fn.container.w = 100
    /\ FlexN = 3 /\ \A k \in 1..3 : ChildMain(k) = 20

PackedModes ==
    /\ ThreeInHundred("flex-start") => MainOffsets = <<Num(0), Num(20), Num(40)>>
    /\ ThreeInHundred("center") => MainOffsets = <<Num(20), Num(40), Num(60)>>
    /\ ThreeInHundred("space-between") => MainOffsets = <<Num(0), Num(40), Num(80)>>
    /\ (FlexDone /\ fn.layout.justify = "flex-start") =>
          MainOffsets = Spread(Num(0), Num(fn.layout.gap))
    /\ (FlexDone /\ fn.layout.justify = "center") =>
          MainOffsets = Spread(Frac(FlexMain - FlexTotal, 2), Num(fn.layout.gap))
    /\ (FlexDone /\ fn.layout.justify = "flex-end") =>
          MainOffsets = Spread(Num(FlexMain - FlexTotal), Num(fn.layout.gap))
    /\ (FlexDone /\ fn.layout.justify = "space-between" /\ FlexN = 1) =>
          MainOffsets = <<Num(0)>>

LastChildEndsAtMain ==
    /\ MainOffsets[1] = Num(0)
    /\ FAdd(MainOffsets[FlexN], Num(ChildMain(FlexN))) = Num(FlexMain)

(* C14 as stated: flex-start, center and flex-end start the first child at 0,
   (main - total)/2 and main - total, with [0,20,40], [20,40,60] and [0,40,80]
   (space-between) for three children of 20 in 100; and space-between with
   n > 1 always puts the first child at 0 and the end of the last at main. *)
C14_PackedModesAnySizes ==
    /\ PackedModes
    /\ (FlexDone /\ fn.layout.justify = "space-between" /\ FlexN > 1) =>
          LastChildEndsAtMain

(* C14: the same offsets for flex-start, center, flex-end and the example; and
   space-between with n > 1 puts the first child at 0 and the end of the last
   child at main when the children are together shorter than main, and lays
   the children out as flex-start, gap included, when they are not. *)
C14_PackedModes ==
    /\ PackedModes
    /\ (FlexDone /\ fn.layout.justify = "space-between" /\ FlexN > 1) =>
          IF ChildrenSum < FlexMain
          THEN LastChildEndsAtMain
          ELSE MainOffsets = Spread(Num(0), Num(fn.layout.gap))

\* the example: three children of 20 in 100, space-between, at 0, 40, 80
C14_Witness ==
    /\ ThreeInHundred("space-between")
    /\ MainOffsets = <<Num(0), Num(40), Num(80)>>

\* the free space before child k (k = n + 1: after the last child)
GapBefore(k) ==
    CASE k = 1 -> MainOffsets[1]
      [] k = FlexN + 1 -> FSub(Num(FlexMain), FAdd(MainOffsets[FlexN], Num(ChildMain(FlexN))))
      [] OTHER -> FSub(MainOffsets[k], FAdd(MainOffsets[k - 1], Num(ChildMain(k - 1))))

(* C15 as stated: space-around puts three children of 20 in a row of 100 at
   20/3, 40 and 220/3: the free space before the first child equals the free
   space after the last, and is half the free space between two neighbours. *)
C15_SpaceAround ==
    ThreeInHundred("space-around") =>
        /\ MainOffsets = <<Frac(20, 3), Num(40), Frac(220, 3)>>
        /\ GapBefore(1) = GapBefore(4)
        /\ \A k \in 2..3 : GapBefore(k) = FAdd(GapBefore(1), GapBefore(1))

FlexSquareExample ==
    /\ ThreeInHundred("space-evenly")
    /\ fn.container.h = 100
    /\ fn.layout.align = "center"

(* C16 as stated: in a 100x100 container with {row, space-evenly, align-items
   center, gap 0} three 20x20 children are at x = 25, 50, 75 and y = 40. *)
C16_SpaceEvenlyQuarters ==
    FlexSquareExample =>
        /\ MainOffsets = <<Num(25), Num(50), Num(75)>>
        /\ \A k \in 1..3 : fn.positions[k].cross = Num(40)

(* C16: in a 100x100 container with {row, space-evenly, align-items center,
   gap 0} three 20x20 children are at x = 10, 40, 70, the four free spaces
   being 10 each, and at y = 40 = (cross - childCross)/2; with align-items
   center every child of every container is at (cross - childCross)/2. *)
C16_SpaceEvenlyCentered ==
    /\ FlexSquareExample =>
          /\ MainOffsets = <<Num(10), Num(40), Num(70)>>
          /\ \A k \in 1..4 : GapBefore(k) = Num(10)
          /\ \A k \in 1..3 : fn.positions[k].cross = Num(40)
    /\ (FlexDone /\ fn.layout.align = "center") =>
          \A k \in 1..FlexN : fn.positions[k].cross = Frac(FlexCross - ChildCross(k), 2)
    /\ (FlexDone /\ fn.layout.justify = "space-evenly" /\ FlexTotal < FlexMain
          /\ fn.layout.gap = 0) =>
          \A k \in 1..(FlexN + 1) : GapBefore(k) = GapBefore(1)

\* the example laid out: x = 10, 40, 70 and y = 40
C16_Witness ==
    /\ FlexSquareExample
    /\ MainOffsets = <<Num(10), Num(40), Num(70)>>
    /\ fn.positions[2].cross = Num(40)

-----------------------------------------------------------------------------
(* Auto font size *)

FontChosen == fn.op = "font" /\ fn.done

\* the text at this font size is at most 0.95 * widthMM wide
NotWiderThanBox(size) == size.n * fn.mmPerPt * 100 <= 95 * fn.width * size.d

TooWideAtConverted == ~NotWiderThanBox(fn.converted)

(* C17 as stated: whenever the text at the converted font size is wider than
   0.95 * widthMM, the size chosen by the search is strictly smaller than the
   converted size and the text at the chosen size is at most 0.95 * widthMM
   wide; the search terminates. *)
C17_ChosenSizeAlwaysFits ==
    /\ fn.op = "font" => fn.iterations <= 10
    /\ (FontChosen /\ TooWideAtConverted) =>
          /\ FLess(fn.out, fn.converted)
          /\ NotWiderThanBox(fn.out)

(* C17: whenever the text at the converted font size is wider than
   0.95 * widthMM but at most that wide at the smallest size of 4 pt, the
   chosen size is strictly smaller than the converted size and the text at
   the chosen size is at most 0.95 * widthMM wide; when the text is too wide
   even at 4 pt the chosen size is 4 pt and the text stays wider than the
   limit; the search ends within 10 iterations. *)
C17_ChosenSizeFits ==
    /\ fn.op = "font" => fn.iterations <= 10
    /\ (FontChosen /\ TooWideAtConverted) =>
          IF NotWiderThanBox(Num(4))
          THEN FLess(fn.out, fn.converted) /\ NotWiderThanBox(fn.out)
          ELSE fn.out = Num(4) /\ ~NotWiderThanBox(fn.out)

\* a text too wide at 12 pt was fitted by a search of several iterations
C17_Witness ==
    /\ FontChosen /\ TooWideAtConverted
    /\ fn.converted = Num(12)
    /\ fn.iterations >= 5
    /\ FLess(Num(4), fn.out) /\ FLess(fn.out, fn.converted)
    /\ NotWiderThanBox(fn.out)

-----------------------------------------------------------------------------
(* The file cache *)

(* C18 as stated: once /api/cache/clear has returned success the cache is
   flushed and initialized again: right after it no memory entry and no file
   is left, the cache directories exist, and every later preload of a
   reachable URL succeeds and leaves the image in the cache. *)
C18_ClearReinitializes ==
    fileCache.cleared =>
        /\ fileCache.lastOp = "clear" => fileCache.mem = {} /\ fileCache.files = {}
        /\ fileCache.dirs
        /\ \A u \in CacheURLs :
              /\ env[u] = "ok" => fileCache.got[u] # "error"
              /\ fileCache.got[u] = "ok" => u \in fileCache.files /\ u \in fileCache.mem

-----------------------------------------------------------------------------
(* The single-badge handler *)

SingleInvalid ==
    \/ single.tid = 0 /\ single.layersNil
    \/ users[1].id = EmptyStr /\ users[1].identifier = EmptyStr

SingleAnswered == single.pc = "responded"

(* C19: a generate request with no template, or with a user that has neither
   id nor identifier, is answered 400 and never fetches an image nor enters
   Generate; any other request is answered 500 exactly when the emission of
   the PDF bytes failed, and otherwise 200 with the PDF: base64 in JSON when
   the Accept header is application/json, raw application/pdf when it is not. *)
C19_SingleBadgeContract ==
    /\ SingleInvalid =>
          /\ fetches = NoFetches
          /\ ~preloaded
          /\ gens[1].pc = "none"
          /\ SingleAnswered => single.status = 400
    /\ SingleAnswered /\ ~SingleInvalid =>
          /\ single.status = 500 <=> gens[1].emitFailed
          /\ single.status # 500 =>
                /\ single.status = 200
                /\ gens[1].pdf
                /\ single.accept = AcceptJSON =>
                      single.contentType = AcceptJSON /\ single.body = "pdf_base64"
                /\ single.accept # AcceptJSON =>
                      single.contentType = "application/pdf" /\ single.body = "pdf"

\* an anonymous user is refused although the template has an image to fetch
C19_Witness ==
    /\ SingleAnswered
    /\ single.status = 400
    /\ users[1] = UserAnon
    /\ \E k \in 1..Len(template.layers) : template.layers[k] = LBackground
    /\ env[UrlBg] = "ok"

-----------------------------------------------------------------------------
(* Stability of the root sort *)

(* C20 as stated: for every root list, two visible root layers of equal
   z-index are rendered in the order the request lists them. *)
C20_RootSortStable ==
    fn.op = "generate" =>
        \A a, b \in 1..Len(fn.visited) :
            a < b /\ fn.visited[a].z = fn.visited[b].z =>
                fn.visited[a].id < fn.visited[b].id

-----------------------------------------------------------------------------
(* Text layers *)

NonBlankLines(content) ==
    LET lines == Split(content, <<>>)
    IN  {k \in 1..Len(lines) : TrimSpace(lines[k]) # EmptyStr}

(* C21 as stated: a text layer whose content is k >= 2 non-blank lines
   separated by newlines is drawn as k cells, the cell of line i (from 0) at
   offset i * lineHeight, lineHeight = min(fontSize * 1.2, height / lineCount). *)
C21_NewlineSplits ==
    (/\ fn.op = "text" /\ fn.pc = "returned"
     /\ Len(Split(fn.content, <<>>)) >= 2
     /\ NonBlankLines(fn.content) = 1..Len(Split(fn.content, <<>>)))
    => LET lines == Split(fn.content, <<>>)
           lineHeight == FMin(FMul(fn.fontSize, Frac(12, 10)), Frac(fn.height, Len(lines)))
       IN  /\ Len(fn.cells) = Len(lines)
           /\ \A k \in 1..Len(fn.cells) :
                 /\ fn.cells[k].text = lines[k]
                 /\ fn.cells[k].offset = FMul(Num(k - 1), lineHeight)
                 /\ fn.cells[k].h = lineHeight

-----------------------------------------------------------------------------
(* Flex overflow *)

FlexOverflows == FlexDone /\ FlexTotal > FlexMain

\* the spacing of the justify-content formulas: the free space without the gaps,
\* shared among n - 1, 2n or n + 1 places
FormulaSpacing ==
    LET free == FlexMain - ChildrenSum
    IN  CASE fn.layout.justify = "space-between" /\ FlexN > 1 -> Frac(free, FlexN - 1)
          [] fn.layout.justify = "space-around" -> Frac(free, 2 * FlexN)
          [] fn.layout.justify = "space-evenly" -> Frac(free, FlexN + 1)
          [] OTHER -> Num(fn.layout.gap)

FormulaStart ==
    CASE fn.layout.justify = "center" -> Frac(FlexMain - FlexTotal, 2)
      [] fn.layout.justify = "flex-end" -> Num(FlexMain - FlexTotal)
      [] fn.layout.justify \in {"space-around", "space-evenly"} -> FormulaSpacing
      [] OTHER -> Num(0)

(* C22 as stated: when the children overflow the container, the first child
   starts at the (negative) start offset of its justify mode and each next
   child follows the one before it at the (negative) spacing of the mode,
   exactly as with positive spacing. *)
C22_NegativeSpacingPropagates ==
    FlexOverflows => MainOffsets = Spread(FormulaStart, FormulaSpacing)

-----------------------------------------------------------------------------
(* The QR pixel size *)

QRSized == fn.op = "qrsize" /\ fn.done

\* max(w, h) * dpi / 25.4 as a fraction
QRExact == Frac((IF fn.h > fn.w THEN fn.h ELSE fn.w) * fn.dpi * 10, 254)

Floor(a) == a.n \div a.d
Round(a) == (2 * a.n + a.d) \div (2 * a.d)
Clamped(px) == IF px < 100 THEN 100 ELSE IF px > 1024 THEN 1024 ELSE px

(* C23 as stated: the size handed to the QR encoder is
   round(max(widthMM, heightMM) * DPI / 25.4) clamped to [100, 1024]. *)
C23_QRSizeRounded ==
    QRSized => fn.out = Clamped(Round(QRExact)) /\ fn.out \in 100..1024

(* C23: the size handed to the QR encoder is the integer part of
   max(widthMM, heightMM) * DPI / 25.4 clamped to [100, 1024]: always within
   [100, 1024], and the rounded value or one less. *)
C23_QRSizeTruncated ==
    QRSized =>
        /\ fn.out = Clamped(Floor(QRExact))
        /\ fn.out \in 100..1024
        /\ fn.out \in {Clamped(Round(QRExact)), Clamped(Round(QRExact)) - 1}

\* 50 mm at 300 DPI is 590.55 pixels: 590 is handed to the encoder, not 591
C23_Witness ==
    /\ QRSized
    /\ fn.w = 50 /\ fn.h = 20 /\ fn.dpi = DefaultDPI
    /\ fn.out = 590
    /\ Round(QRExact) = 591

-----------------------------------------------------------------------------
(* The fan-out of a batch *)

FanAnswered == fan.pc = "done"

(* C24: when the batch response is built every render goroutine has finished:
   all n result slots have been written, no goroutine is waiting, rendering
   or between its two deferred calls, and sem holds no token. *)
C24_ResponseAfterAllWorkers ==
    FanAnswered =>
        /\ fan.written = fan.n
        /\ fan.done = fan.n
        /\ fan.waiting = 0 /\ fan.rendering = 0 /\ fan.released = 0
        /\ fan.sem = 0

\* a batch of 51 users, one more than sem has slots, was answered
C24_Witness ==
    /\ FanAnswered
    /\ fan.n = RenderSlots + 1
    /\ fan.status = 200
    /\ fan.written = fan.n

(* C25: with every render terminating, every goroutine gets a slot of sem,
   every slot taken is given back, also after a failed render, and the handler
   responds: eventually the batch is answered with nobody waiting and sem empty. *)
C25_FanOutTerminates ==
    <>(FanAnswered /\ fan.status = 200 /\ fan.waiting = 0 /\ fan.sem = 0 /\ fan.done = fan.n)

\* the 51st goroutine got its slot after the 50 before it had given theirs back
C25_Witness ==
    /\ fan.n = RenderSlots + 1
    /\ fan.done >= RenderSlots
    /\ fan.rendering = 1 /\ fan.waiting = 0
    /\ fan.sem = 1

-----------------------------------------------------------------------------
(* The image requests of a single badge *)

\* the image layers the walk is due to reach: visible, at any depth inside
\* visible containers
RECURSIVE VisibleImageLayers(_)
VisibleImageLayers(layers) ==
    UNION {IF ~layers[k].visible THEN {}
           ELSE IF layers[k].type = "image" THEN {layers[k]}
           ELSE IF layers[k].type = "container" THEN VisibleImageLayers(layers[k].children)
           ELSE {} : k \in 1..Len(layers)}

Collected == single.pc \in {"generate", "generating", "responded"} /\ single.status # 400

ResolvesToURL(layer) == ImageURLs(layer, users[1], received.assets) # {EmptyStr}

(* C26: after the walk of the layer tree no two image requests are equal in
   (URL, width, height, DPI); every visible image layer that resolves to a URL,
   at any depth inside visible containers, has a request with one of its URLs,
   its size and the template DPI; and the preload fetches each request once. *)
C26_RequestsUniqueAndComplete ==
    Collected =>
        /\ \A i, j \in 1..Len(imageRequests) :
              i # j => ReqKey(imageRequests[i]) # ReqKey(imageRequests[j])
        /\ \A layer \in VisibleImageLayers(received.layers) :
              ResolvesToURL(layer) =>
                 \E r \in SeqSet(imageRequests) :
                    /\ r.url \in ImageURLs(layer, users[1], received.assets)
                    /\ r.w = layer.w /\ r.h = layer.h /\ r.dpi = DPIOf(received)
        /\ single.pc = "generate" =>
              \A u \in AllURLs :
                 fetches[u] = Cardinality({r \in SeqSet(imageRequests) : r.url = u})

\* two layers of one asset and one size made one request; the photo two
\* containers deep made another
C26_Witness ==
    /\ Collected
    /\ received.layers = <<LBackground, LBackgroundTwin>>
    /\ Len(imageRequests) = 1

C26_WitnessDeep ==
    /\ Collected
    /\ received.layers = <<LNest, LBackground>>
    /\ \E r \in SeqSet(imageRequests) : r.url = UrlP1 /\ r.w = LChildPhoto.w

-----------------------------------------------------------------------------
(* The bytes an image layer is drawn from *)

(* C27: every image drawn on the badge was processed for the size of its own
   layer: the bytes carry the layer's URL, width and height, also when another
   layer of the badge has the same URL at a different size. *)
C27_DrawnFromOwnSize ==
    Collected =>
        \A k \in 1..Len(gens[1].drawn) :
           gens[1].drawn[k].kind = "image" =>
              \E layer \in VisibleImageLayers(received.layers) :
                 /\ layer.id = gens[1].drawn[k].id
                 /\ gens[1].drawn[k].url \in ImageURLs(layer, users[1], received.assets)
                 /\ gens[1].drawn[k].w = layer.w
                 /\ gens[1].drawn[k].h = layer.h

-----------------------------------------------------------------------------
(* The asset URL in the handler and in the renderer *)

(* C28: the renderer resolves an image layer to the URL the handler collected
   for it: every image on the badge is drawn from a URL that is among the
   image requests of the badge, also when several asset keys contain the
   layer's content. *)
C28_RendererLooksUpPreloadedURL ==
    Collected =>
        \A k \in 1..Len(gens[1].drawn) :
           gens[1].drawn[k].kind = "image" =>
              \E r \in SeqSet(imageRequests) : r.url = gens[1].drawn[k].url

-----------------------------------------------------------------------------
(* Concurrent calls of GetImagePath *)

Downloading == {g \in DOMAIN fileCache.callers :
                   fileCache.callers[g].pc \in {"download", "copy", "validate"}}

(* C29: with goroutines in GetImagePath at the same time and no cache clear,
   a URL that serves its image is downloaded at most once, at most one
   goroutine is downloading at any moment, and a call that returned without
   error saw its file with size > 0 in the stat it returned from. *)
C29_DownloadedOnceExclusively ==
    /\ \A u \in CacheURLs : env[u] = "ok" => fileCache.downloads[u] <= 1
    /\ Cardinality(Downloading) <= 1
    /\ \A g \in DOMAIN fileCache.callers :
          fileCache.callers[g].result = "ok" => fileCache.callers[g].sawFile

\* the callers all asked for one URL whose file was not there, one of them
\* downloaded it while another waited for the lock, and all have the path
C29_Witness ==
    \E u \in CacheURLs :
       /\ env[u] = "ok"
       /\ fileCache.downloads[u] = 1
       /\ Len(fileCache.callers) >= 2
       /\ \A g \in DOMAIN fileCache.callers :
             fileCache.callers[g].url = u /\ fileCache.callers[g].result = "ok"

C29_WitnessWaiting ==
    \E g, h \in DOMAIN fileCache.callers :
       /\ fileCache.callers[g].url = fileCache.callers[h].url
       /\ fileCache.callers[g].pc = "copy"
       /\ fileCache.callers[h].pc = "lock"

-----------------------------------------------------------------------------
(* Where the children of a container are drawn *)

Placed == fn.op = "place" /\ fn.done

PlaceLayout == IF fn.layoutNil THEN DefaultLayout ELSE fn.container.layout
PlaceRow == PlaceLayout.direction = "row"

\* the container of the call with every child visible
AllVisible ==
    [fn.container EXCEPT
        !.children = [k \in 1..Len(fn.container.children) |->
                         [fn.container.children[k] EXCEPT !.visible = TRUE]]]

VisibleChildren == {k \in 1..Len(fn.container.children) : fn.container.children[k].visible}

(* C30: the children drawn are the visible ones, and each is drawn at the
   container's position plus the flex offset it has when every child of the
   container is visible plus its own position: hiding a child moves no other
   child. *)
C30_PlacementIgnoresVisibility ==
    Placed =>
        LET offsets == calculateFlexPositions(AllVisible, PlaceLayout)
        IN  /\ {fn.placed[k].i : k \in 1..Len(fn.placed)} = VisibleChildren
            /\ Len(fn.placed) = Cardinality(VisibleChildren)
            /\ \A k \in 1..Len(fn.placed) :
                  LET i == fn.placed[k].i
                  IN  /\ fn.placed[k].x =
                           FAdd(FAdd(Num(fn.container.x), OffsetX(offsets[i], PlaceRow)),
                                Num(fn.container.children[i].x))
                      /\ fn.placed[k].y =
                           FAdd(FAdd(Num(fn.container.y), OffsetY(offsets[i], PlaceRow)),
                                Num(fn.container.children[i].y))

\* a row at (10, 5) with gap 5: a hidden 20 mm child, then a visible 30 mm child
\* with own position (1, 2), drawn at x = 10 + 25 + 1 and y = 5 + 0 + 2
C30_Witness ==
    /\ Placed
    /\ ~fn.layoutNil /\ PlaceRow
    /\ fn.container.x = 10 /\ fn.container.y = 5
    /\ Len(fn.container.children) = 2
    /\ ~fn.container.children[1].visible /\ fn.container.children[1].w = 20
    /\ fn.container.children[2].visible /\ fn.container.children[2].w = 30
    /\ fn.placed = <<[i |-> 2, x |-> Num(36), y |-> Num(7)]>>

=============================================================================
